---- MODULE Spec2Model ----
(***************************************************************************)
(* Search core of the terminology mapper: the normalizer, the edit-distance *)
(* matcher and the fuzzy autocomplete matcher of api/autocomplete.py with   *)
(* its four route handlers and the web-search fallback, the re-ranking      *)
(* engine of reranking.py, _find_rank, the three-stage retrieval pipeline   *)
(* of search.py and search_ayurveda_sat.py with the loading of its index    *)
(* files, the /map/<system>-code routes (map_to_icd followed by             *)
(* rerank_mapping_results), and concurrent callers of the search functions. *)
(*                                                                          *)
(* A string is a sequence of characters; a character is a one-letter TLA+   *)
(* string, or "U+xxxx" for a code point outside ASCII.                      *)
(***************************************************************************)
EXTENDS Integers, Sequences, FiniteSets, TLC

VARIABLES
    pc,             \* position of the running call
    s1, s2,         \* arguments of levenshtein_distance
    distance,       \* its return value
    test_log,       \* the lines test_levenshtein printed
    text,           \* argument of normalize
    normalized,     \* its return value
    q,              \* the q parameter of an autocomplete request
    catalog,        \* the datasets loaded at import, per system
    system,         \* the system whose route handler is running
    search_result,  \* the handler's local search_result
    stages,         \* the matching stages autocomplete_search went through
    response,       \* what the handler returned (or the error it raised)
    GOOGLE_API_KEY,           \* the environment's values read at import
    GOOGLE_SEARCH_ENGINE_ID,
    google_results, \* what the awaited google_search_fallback gave the handler
    http_log,       \* the requests sent to the search API, each with its reply
    selection_count,  \* argument of calculate_boost
    boost,            \* its return value
    results_in,       \* the list handed to apply_boost_to_results, as handed over
    selection_counts, \* the counts handed to it
    results_out,      \* the same list object after the call, which is also returned
    selected_item,    \* arguments of _find_rank
    candidates,
    rank,             \* its return value
    pipeline,         \* the search function that is running
    corpus,             \* the catalog a search module loaded: codes, terms, definitions
    bm25_scores,      \* bm25.get_scores for the query, per document
    tfidf_scores,     \* row of tfidf_matrix times the query vector, per document
    cos_scores,       \* cosine of the query embedding and the row of embeddings
    bm25_ids,         \* output of stage 1
    tfidf_ids,        \* output of stage 2
    search_candidates, \* output of stage 3
    index_files,      \* the files of the search module's directories at import
    embed_log,        \* the calls of embedder.encode, each with its outcome
    search_error,     \* the exception that left the search module or function
    map_system,       \* the system of the /map/<system>-code request
    search_out,       \* what the three searches of map_to_icd gave
    history,          \* the selection counts the database holds for the system
    mapping_result,   \* the handler's local result
    db_counts,        \* what get_selection_counts returned
    map_error,        \* the exception that left the handler
    shared,           \* what every caller reads: datasets, catalog, index tables
    callers,          \* the calls in progress, each with its locals
    argsort_order     \* the order this build's sort leaves among equal scores

vars == <<pc, s1, s2, distance, test_log, text, normalized,
          q, catalog, system, search_result, stages, response,
          GOOGLE_API_KEY, GOOGLE_SEARCH_ENGINE_ID, google_results, http_log,
          selection_count, boost, results_in, selection_counts, results_out,
          selected_item, candidates, rank,
          pipeline, corpus, bm25_scores, tfidf_scores, cos_scores,
          bm25_ids, tfidf_ids, search_candidates,
          index_files, embed_log, search_error,
          map_system, search_out, history, mapping_result, db_counts, map_error,
          shared, callers, argsort_order>>

levVars  == <<s1, s2, distance, test_log>>
normVars == <<text, normalized>>
autoVars == <<q, catalog, system, search_result, stages, response,
             GOOGLE_API_KEY, GOOGLE_SEARCH_ENGINE_ID, google_results, http_log>>
rerankVars == <<selection_count, boost, results_in, selection_counts, results_out>>
rankVars == <<selected_item, candidates, rank>>
pipeVars == <<pipeline, corpus, bm25_scores, tfidf_scores, cos_scores,
              bm25_ids, tfidf_ids, search_candidates,
              index_files, embed_log, search_error>>
mapVars == <<map_system, search_out, history, mapping_result, db_counts, map_error>>
concVars == <<shared, callers, argsort_order>>
moreVars == <<mapVars, concVars>>
laterVars == <<rerankVars, rankVars, pipeVars, moreVars>>

None == "None"

\* An argument that may be None, and the same holding a dict or a list.
PyNone == [none |-> TRUE, value |-> <<>>]
Py(v)  == [none |-> FALSE, value |-> v]

\* The None a rank function returns; a rank is at least 1.
NOT_FOUND == 0

----------------------------------------------------------------------------
(* Characters *)

UpperCase == <<"A","B","C","D","E","F","G","H","I","J","K","L","M",
               "N","O","P","Q","R","S","T","U","V","W","X","Y","Z">>
LowerCase == <<"a","b","c","d","e","f","g","h","i","j","k","l","m",
               "n","o","p","q","r","s","t","u","v","w","x","y","z">>
Digits    == {"0","1","2","3","4","5","6","7","8","9"}

Range(f) == {f[i] : i \in DOMAIN f}

Min(S) == CHOOSE x \in S : \A y \in S : x <= y

\* F(v), with v evaluated once: TLC evaluates an operator's argument at every
\* use, so the variables of a loop are bound to their values this way.
Bind(F(_), v) == CHOOSE r \in {F(x) : x \in {v}} : TRUE

RECURSIVE Flatten(_)
Flatten(ss) == IF ss = <<>> THEN <<>> ELSE Head(ss) \o Flatten(Tail(ss))

UpperSet == Range(UpperCase)
LowerSet == Range(LowerCase)

\* The lower-case form of the ASCII capital letters.
AsciiLower == [c \in UpperSet |-> LowerCase[CHOOSE i \in DOMAIN UpperCase : UpperCase[i] = c]]

\* str.lower() of one character.  Python lower-cases by the Unicode tables:
\* U+0130 (capital I with dot) becomes "i" followed by U+0307, U+212A (the
\* Kelvin sign) becomes "k", U+00C9 becomes U+00E9; a character with no
\* lower-case form is kept.
lower_char(c) ==
    IF c \in UpperSet THEN <<AsciiLower[c]>>
    ELSE IF c = "U+0130" THEN <<"i", "U+0307">>
    ELSE IF c = "U+212A" THEN <<"k">>
    ELSE IF c = "U+00C9" THEN <<"U+00E9">>
    ELSE <<c>>

lower(t) == Flatten([i \in DOMAIN t |-> lower_char(t[i])])

\* The characters the pattern [^a-zA-Z0-9 ] does not match.
ReKeptSet == LowerSet \cup UpperSet \cup Digits \cup {" "}

re_kept(c) == c \in ReKeptSet

normalize_nolower(t) == SelectSeq(t, re_kept)

normalize(t) == SelectSeq(lower(t), re_kept)

----------------------------------------------------------------------------
(* Levenshtein distance, row by row as the code computes it *)

Bool2Int(b) == IF b THEN 1 ELSE 0

\* min(a, b, c)
min3(a, b, c) == IF a <= b /\ a <= c THEN a ELSE IF b <= c THEN b ELSE c

\* The inner loop over s2: cur holds current_row so far; cur[1] is [i + 1].
RECURSIVE current_row_bad(_, _, _, _)
current_row_bad(cur, previous_row, c1, t2) ==
    IF Len(cur) = Len(t2) + 1 THEN cur
    ELSE LET j == Len(cur) - 1
             insertions    == previous_row[j + 2] + 1
             deletions     == cur[j + 1] + 1
             substitutions == previous_row[j + 1] + 1
         IN  Bind(LAMBDA row : current_row_bad(row, previous_row, c1, t2),
                  Append(cur, min3(insertions, deletions, substitutions)))

RECURSIVE current_row(_, _, _, _)
current_row(cur, previous_row, c1, t2) ==
    IF Len(cur) = Len(t2) + 1 THEN cur
    ELSE LET j == Len(cur) - 1
             insertions    == previous_row[j + 2] + 1
             deletions     == cur[j + 1] + 1
             substitutions == previous_row[j + 1] + Bool2Int(c1 # t2[j + 1])
         IN  Bind(LAMBDA row : current_row(row, previous_row, c1, t2),
                  Append(cur, min3(insertions, deletions, substitutions)))

\* The outer loop over s1 (i counts from 1 here, so current_row starts [i]).
RECURSIVE lev_rows(_, _, _, _)
lev_rows(previous_row, i, t1, t2) ==
    IF i > Len(t1) THEN previous_row
    ELSE Bind(LAMBDA row : lev_rows(row, i + 1, t1, t2),
              current_row(<<i>>, previous_row, t1[i], t2))

\* The body once len(s1) >= len(s2).
Last(row) == row[Len(row)]

lev_ordered(t1, t2) ==
    IF Len(t2) = 0 THEN Len(t1)
    ELSE Last(lev_rows([j \in 1..(Len(t2) + 1) |-> j - 1], 1, t1, t2))

levenshtein_distance(t1, t2) ==
    IF Len(t1) < Len(t2) THEN lev_ordered(t2, t1) ELSE lev_ordered(t1, t2)

\* The table of test_levenshtein: (s1, s2, expected).
test_cases == <<
    <<<<"f","e","b","r">>, <<"f","e","v","e","r">>, 1>>,
    <<<<"p","i","a","n">>, <<"p","a","i","n">>, 1>>,
    <<<<"s","w","e","l","i","n","g">>, <<"s","w","e","l","l","i","n","g">>, 1>>,
    <<<<"d","i","a","b","e","t","i","s">>, <<"d","i","a","b","e","t","e","s">>, 1>>,
    <<<<"c","o","u","g","h">>, <<"c","o","l","d">>, 4>>,
    <<<<"f","e","v","e","r">>, <<"f","e","v","e","r">>, 0>>,
    <<<<"b","a","c","k"," ","p","i","a","n">>, <<"b","a","c","k"," ","p","a","i","n">>, 1>> >>

----------------------------------------------------------------------------
(* The fuzzy autocomplete matcher *)

MIN_QUERY_LEN          == 2    \* len(query_norm) < 2
SUBSTRING_THRESHOLD    == 20   \* len(results) < 20
RESULT_LIMIT           == 20   \* results[:20]
FUZZY_MIN_QUERY_LEN    == 3    \* len(query_norm) >= 3
FUZZY_MAX_DISTANCE     == 2    \* max_distance=2
FUZZY_SUGGESTION_LIMIT == 5    \* fuzzy_matches[:5]
FUZZY_RESULT_LIMIT     == 10   \* fuzzy_matches[:10]
MIN_WORD_LEN           == 2    \* len(word) > 2

Take(seq, n) == SubSeq(seq, 1, IF n < Len(seq) THEN n ELSE Len(seq))

\* s.startswith(p)
startswith(s, p) == Len(p) <= Len(s) /\ SubSeq(s, 1, Len(p)) = p

\* p in s
contains(s, p) == \E i \in 0..(Len(s) - Len(p)) : SubSeq(s, i + 1, i + Len(p)) = p

\* str.split(): the maximal runs of characters other than white space (a
\* normalized string holds no white space but the space).
RECURSIVE split_from(_, _, _)
split_from(t, word, i) ==
    LET done == IF word = <<>> THEN <<>> ELSE <<word>>
    IN  IF i > Len(t) THEN done
        ELSE IF t[i] = " " THEN done \o split_from(t, <<>>, i + 1)
        ELSE split_from(t, Append(word, t[i]), i + 1)

split(t) == split_from(t, <<>>, 1)

\* min(term_distance, code_distance, min_word_distance), where
\* min_word_distance is float('inf') when word_distances is empty.
best_of(term_distance, code_distance, word_distances) ==
    IF word_distances = <<>>
    THEN Min({term_distance, code_distance})
    ELSE Min({term_distance, code_distance} \cup Range(word_distances))

\* The distances to the words of the term that are longer than two characters.
word_distances_of(query_norm, term_words) ==
    [k \in DOMAIN term_words |-> levenshtein_distance(query_norm, term_words[k])]

best_distance_noword(query_norm, item) ==
    best_of(levenshtein_distance(query_norm, normalize(item.term)),
            levenshtein_distance(query_norm, normalize(item.code)),
            <<>>)

\* best_distance of one item in fuzzy_match_terms.
best_distance(query_norm, item) ==
    Bind(LAMBDA term_norm :
            best_of(levenshtein_distance(query_norm, term_norm),
                    levenshtein_distance(query_norm, normalize(item.code)),
                    word_distances_of(query_norm,
                        SelectSeq(split(term_norm), LAMBDA word : Len(word) > MIN_WORD_LEN))),
         normalize(item.term))

\* matches.sort(key=lambda x: x[1]): a stable sort; m goes behind every match
\* already placed whose distance is not larger.
sort_insert(sorted, m) ==
    LET k == Cardinality({i \in DOMAIN sorted : sorted[i][2] <= m[2]})
    IN  SubSeq(sorted, 1, k) \o <<m>> \o SubSeq(sorted, k + 1, Len(sorted))

RECURSIVE sort_by_distance(_, _)
sort_by_distance(matches, sorted) ==
    IF matches = <<>> THEN sorted
    ELSE Bind(LAMBDA placed : sort_by_distance(Tail(matches), placed),
              sort_insert(sorted, Head(matches)))

\* A match is the pair (item, best_distance).
scored_items(query_norm, dataset) ==
    [i \in DOMAIN dataset |-> <<dataset[i], best_distance(query_norm, dataset[i])>>]

fuzzy_match_terms(query, dataset, max_distance) ==
    sort_by_distance(
        SelectSeq(scored_items(normalize(query), dataset), LAMBDA m : m[2] <= max_distance),
        <<>>)

\* The condition of the prefix stage.
prefix_match_termonly(query_norm, item) ==
    startswith(normalize(item.term), query_norm)

prefix_match(query_norm, item) ==
    \/ startswith(normalize(item.term), query_norm)
    \/ startswith(normalize(item.code), query_norm)
    \/ startswith(normalize(item.definition), query_norm)

blob_of(item) ==
    normalize(item.term \o <<" ">> \o item.code \o <<" ">> \o item.definition)

\* The loop of the substring stage, from item i on.
RECURSIVE substring_stage_nodedup(_, _, _, _)
substring_stage_nodedup(results, dataset, i, query_norm) ==
    IF i > Len(dataset) THEN results
    ELSE Bind(LAMBDA found : substring_stage_nodedup(found, dataset, i + 1, query_norm),
              IF contains(blob_of(dataset[i]), query_norm)
              THEN Append(results, dataset[i]) ELSE results)

RECURSIVE substring_stage(_, _, _, _)
substring_stage(results, dataset, i, query_norm) ==
    IF i > Len(dataset) THEN results
    ELSE Bind(LAMBDA found : substring_stage(found, dataset, i + 1, query_norm),
              IF contains(blob_of(dataset[i]), query_norm) /\ dataset[i] \notin Range(results)
              THEN Append(results, dataset[i]) ELSE results)

suggestion_text(item) ==
    <<"D","i","d"," ","y","o","u"," ","m","e","a","n"," ","'">> \o item.term \o <<"'","?">>

items_of(matches) == [k \in DOMAIN matches |-> matches[k][1]]

suggestions_of(matches) ==
    [k \in DOMAIN matches |->
        [item |-> matches[k][1], distance |-> matches[k][2],
         suggestion_text |-> suggestion_text(matches[k][1])]]

search_return_nocap(results, fuzzy_suggestions, ran) ==
    [ret |-> [results           |-> results,
              fuzzy_suggestions |-> fuzzy_suggestions,
              has_fuzzy         |-> Len(fuzzy_suggestions) > 0],
     ran |-> ran]

\* The return statement of autocomplete_search, from the values of its local
\* variables; ran lists the stages gone through.
search_return(results, fuzzy_suggestions, ran) ==
    [ret |-> [results           |-> Take(results, RESULT_LIMIT),
              fuzzy_suggestions |-> fuzzy_suggestions,
              has_fuzzy         |-> Len(fuzzy_suggestions) > 0],
     ran |-> ran]

\* Priority 3, entered with the fuzzy matches found.
after_fuzzy(results, fuzzy_matches, ran) ==
    IF fuzzy_matches # <<>>
    THEN search_return(items_of(Take(fuzzy_matches, FUZZY_RESULT_LIMIT)),
                       suggestions_of(Take(fuzzy_matches, FUZZY_SUGGESTION_LIMIT)),
                       ran)
    ELSE search_return(results, <<>>, ran)

after_substring_always(query_norm, dataset, results, ran) ==
    IF Len(query_norm) >= FUZZY_MIN_QUERY_LEN
    THEN Bind(LAMBDA fuzzy_matches : after_fuzzy(results, fuzzy_matches, Append(ran, "fuzzy")),
              fuzzy_match_terms(query_norm, dataset, FUZZY_MAX_DISTANCE))
    ELSE search_return(results, <<>>, ran)

\* From "Priority 3" on, results holding the prefix and substring matches.
after_substring(query_norm, dataset, results, ran) ==
    IF Len(results) = 0 /\ Len(query_norm) >= FUZZY_MIN_QUERY_LEN
    THEN Bind(LAMBDA fuzzy_matches : after_fuzzy(results, fuzzy_matches, Append(ran, "fuzzy")),
              fuzzy_match_terms(query_norm, dataset, FUZZY_MAX_DISTANCE))
    ELSE search_return(results, <<>>, ran)

\* From "Priority 2" on, results holding the prefix matches.
after_prefix(query_norm, dataset, results) ==
    IF Len(results) < SUBSTRING_THRESHOLD
    THEN Bind(LAMBDA found : after_substring(query_norm, dataset, found, <<"prefix", "substring">>),
              substring_stage(results, dataset, 1, query_norm))
    ELSE after_substring(query_norm, dataset, results, <<"prefix">>)

\* autocomplete_search once query_norm is computed.
search_normalized(query_norm, dataset) ==
    IF Len(query_norm) < MIN_QUERY_LEN
    THEN [ret |-> [results |-> <<>>, fuzzy_suggestions |-> <<>>], ran |-> <<>>]
    ELSE Bind(LAMBDA results : after_prefix(query_norm, dataset, results),
              SelectSeq(dataset, LAMBDA item : prefix_match(query_norm, item)))

\* autocomplete_search: ret is the returned dict, ran the stages gone through.
autocomplete_run(query, dataset) ==
    Bind(LAMBDA query_norm : search_normalized(query_norm, dataset), normalize(query))

autocomplete_search(query, dataset) == autocomplete_run(query, dataset).ret

----------------------------------------------------------------------------
(* Datasets and route handlers *)

Systems == {"siddha", "ayurveda", "unani", "ayurveda-sat"}

\* "Convert to same format as siddha" for the ayurveda and unani files.
convert(raw) ==
    [i \in DOMAIN raw |->
        [code |-> raw[i].tm2_code, term |-> raw[i].english,
         definition |-> raw[i].description]]

\* The module-level loading of the four data files.
load_datasets(files) ==
    [sys \in Systems |->
        IF sys \in {"ayurveda", "unani"} THEN convert(files[sys]) ELSE files[sys]]

DigitSeq == <<"0","1","2","3","4","5","6","7","8","9">>

\* str(n) for n >= 0
RECURSIVE decimal(_)
decimal(n) ==
    IF n < 10 THEN <<DigitSeq[n + 1]>>
    ELSE decimal(n \div 10) \o <<DigitSeq[(n % 10) + 1]>>

\* dict.get(key, default)
Get(d, key, default) == IF key \in DOMAIN d THEN d[key] ELSE default

\* The items google_search_fallback builds from the API's items.
web_results(items) ==
    [idx \in DOMAIN items |->
        [code |-> <<"W","E","B","-">> \o decimal(idx),
         term |-> Get(items[idx], "title", <<>>),
         definition |-> Get(items[idx], "snippet", <<>>),
         source |-> "google_search", link |-> Get(items[idx], "link", <<>>)]]

system_context ==
    [sys \in {"siddha", "ayurveda", "unani", "ayurveda-sat"} |->
        CASE sys = "siddha" -> "Siddha medicine"
          [] sys = "ayurveda" -> "Ayurveda medicine"
          [] sys = "unani" -> "Unani medicine"
          [] sys = "ayurveda-sat" -> "Ayurveda SAT"]

SEARCH_NUM == 5

\* The GET request of the fallback; search_query is the f-string's parts.
search_request(query, sys) ==
    [url |-> "https://www.googleapis.com/customsearch/v1",
     key |-> GOOGLE_API_KEY, cx |-> GOOGLE_SEARCH_ENGINE_ID,
     q |-> <<query, Get(system_context, sys, "traditional medicine"), "term definition">>,
     num |-> SEARCH_NUM]

\* The body of the try block, given what the network did (net): either the
\* value it returns or the exception that leaves it.
try_search(net) ==
    IF net.kind = "raise" THEN [raised |-> net.exc, value |-> <<>>]
    ELSE IF net.status_code # 200 THEN [raised |-> None, value |-> <<>>]
    ELSE IF net.json = "invalid" THEN [raised |-> "JSONDecodeError", value |-> <<>>]
    ELSE IF net.json = "no_items" THEN [raised |-> None, value |-> <<>>]
    ELSE [raised |-> None, value |-> web_results(net.items)]

\* except Exception: print, return [].
except_nothing(attempt) == attempt

except_Exception(attempt) ==
    IF attempt.raised # None THEN [raised |-> None, value |-> <<>>] ELSE attempt

\* google_search_fallback(query, system): what it returns or raises, and the
\* requests it sent.
fallback_run(query, sys, net) ==
    IF GOOGLE_API_KEY = <<>> \/ GOOGLE_SEARCH_ENGINE_ID = <<>>
    THEN [raised |-> None, value |-> <<>>, log |-> <<>>]
    ELSE LET outcome == except_Exception(try_search(net))
         IN  [raised |-> outcome.raised, value |-> outcome.value,
              log |-> <<[request |-> search_request(query, sys), reply |-> net]>>]

fuzzy_response(query, result) ==
    [query |-> query, results |-> result.results,
     fuzzy_suggestions |-> result.fuzzy_suggestions,
     source |-> "fuzzy_match",
     message |-> suggestion_text(result.fuzzy_suggestions[1].item)]

local_response(query, matches) ==
    [query |-> query, results |-> matches, source |-> "local"]

google_response(query, web) ==
    [query |-> query, results |-> web, source |-> "google_fallback",
     message |-> "No local results found. Showing web search results."]

\* search_result["key"] of a dict without the key raises KeyError, which the
\* handler does not catch.
KeyError(key) == [raised |-> "KeyError", key |-> key]

MissingKey(result) ==
    IF "results" \notin DOMAIN result THEN "results"
    ELSE IF "fuzzy_suggestions" \notin DOMAIN result THEN "fuzzy_suggestions"
    ELSE IF "has_fuzzy" \notin DOMAIN result THEN "has_fuzzy"
    ELSE None

----------------------------------------------------------------------------
(* Bounds and input sets *)

MaxLen     == 3     \* longest argument of levenshtein_distance
MaxTextLen == 3     \* longest argument of normalize

LevAlphabet  == {"a", "b", "c"}
TextAlphabet == {"a", "Z", "7", " ", "-", "U+0130", "U+212A"}

StringsOver(A, n) == UNION {[1..k -> A] : k \in 0..n}

LevStrings == StringsOver(LevAlphabet, MaxLen)
Texts      == StringsOver(TextAlphabet, MaxTextLen)

MaxQueryLen == 3    \* longest enumerated query
SmallDocs   == 2    \* every catalog size up to this one is tried
MaxWebItems == 2    \* most items the web search returns

QueryAlphabet == {"f", "E"}

\* Queries of the authors' tests and queries with characters that normalize
\* removes, besides the enumerated ones.
NamedQueries == {<<"f","e">>, <<"f","e","b","r">>, <<"p","a","i","n">>, <<"x","y","z">>,
                 <<"S","P","4">>, <<"H","i","g","h">>,
                 <<"-">>, <<"f","-">>, <<"-","E","!">>, <<"f","-","e">>,
                 <<"U+0130","f">>, <<"f","."," ","e","?">>,
                 <<"f"," ">>, <<" ","f","e">>, <<"E"," ","f">>}

Queries == StringsOver(QueryAlphabet, MaxQueryLen) \cup NamedQueries

\* Catalog entries are made from templates: entry i of a numbered template
\* gets the code <code><base + i>, so codes are unique; an entry of a template
\* that is not numbered is the same document every time.
FeverDisorder ==
    [code |-> <<"S","P">>, base |-> 41, numbered |-> TRUE,
     term |-> <<"F","e","v","e","r"," ","d","i","s","o","r","d","e","r">>,
     definition |-> <<"H","i","g","h"," ","b","o","d","y"," ","t","e","m","p","e","r","a","t","u","r","e">>]
Fee ==
    [code |-> <<"F">>, base |-> 0, numbered |-> TRUE,
     term |-> <<"F","e","e">>, definition |-> <<"e"," ","f","e">>]
Eff ==
    [code |-> <<"E","-">>, base |-> 0, numbered |-> TRUE,
     term |-> <<"e","f"," ","f","e"," ","e","f","f">>,
     definition |-> <<"a"," ","f","e","e">>]
Pain ==
    [code |-> <<"X">>, base |-> 0, numbered |-> TRUE,
     term |-> <<"P","a","i","n">>, definition |-> <<"n","o","n","e">>]
Same ==
    [code |-> <<"D","0">>, base |-> 0, numbered |-> FALSE,
     term |-> <<"f","e">>, definition |-> <<"f","e","e">>]

Patterns == << <<FeverDisorder>>, <<Fee>>, <<Pain>>, <<Eff, Fee>>,
              <<Fee, Eff>>, <<Same, Fee>>, <<Pain, Eff, FeverDisorder>>, <<Same>> >>

\* The data files come in groups of one pattern per system.
Groups == 1..(Len(Patterns) \div Cardinality(Systems))

Layouts == {"cycle", "tail"}

\* Small catalogs, and one document more than the limit of the matcher.
CatalogSizes == (0..SmallDocs) \cup {RESULT_LIMIT + 1}

\* "cycle" repeats the pattern; "tail" repeats its last template only.
TemplateAt(pattern, layout, i) ==
    IF layout = "cycle" THEN pattern[((i - 1) % Len(pattern)) + 1]
    ELSE pattern[IF i < Len(pattern) THEN i ELSE Len(pattern)]

Entries(pattern, layout, n) ==
    [i \in 1..n |->
        LET t == TemplateAt(pattern, layout, i)
        IN  [code |-> IF t.numbered THEN t.code \o decimal(t.base + i) ELSE t.code,
             term |-> t.term, definition |-> t.definition]]

Raw(entries) ==
    [i \in DOMAIN entries |->
        [tm2_code |-> entries[i].code, english |-> entries[i].term,
         description |-> entries[i].definition]]

SystemSeq == <<"siddha", "ayurveda", "unani", "ayurveda-sat">>

\* The four data files of group g: system number j holds the j-th pattern of
\* the group.
DataFiles(g, layout, n) ==
    [sys \in Systems |->
        LET j == CHOOSE x \in DOMAIN SystemSeq : SystemSeq[x] = sys
            e == Entries(Patterns[(g - 1) * Cardinality(Systems) + j], layout, n)
        IN  IF sys \in {"ayurveda", "unani"} THEN Raw(e) ELSE e]

\* Items of a search response: complete ones, or ones that lack the title
\* and the snippet.
WebItems(n, complete) ==
    [idx \in 1..n |->
        IF complete
        THEN [title |-> <<"w","e","b">>, snippet |-> <<"w","e","b">>,
              link |-> <<"h","t","t","p","s",":","/","/","e",".","o","r","g">>]
        ELSE [link |-> <<"h","t","t","p","s",":","/","/","e",".","o","r","g">>]]

\* Values of an environment variable: unset or empty, or set.
EnvValues == {<<>>, <<"k","e","y">>}

\* What the network can do to the request.
NetOutcome(kind, exc, status_code, json, items) ==
    [kind |-> kind, exc |-> exc, status_code |-> status_code, json |-> json, items |-> items]

NetOutcomes ==
    {NetOutcome("raise", exc, 0, "invalid", <<>>) : exc \in {"TimeoutException", "ConnectError"}}
    \cup {NetOutcome("response", None, sc, "invalid", <<>>) : sc \in {200, 403, 500}}
    \cup {NetOutcome("response", None, 200, "no_items", <<>>)}
    \cup {NetOutcome("response", None, 200, "items", WebItems(n, complete)) :
             n \in 0..MaxWebItems, complete \in BOOLEAN}

----------------------------------------------------------------------------
(* Idle values of the parts a specification does not use *)

LevIdle  == s1 = <<>> /\ s2 = <<>> /\ distance = None /\ test_log = <<>>
NormIdle == text = <<>> /\ normalized = None
AutoIdle == /\ q = <<>> /\ catalog = <<>> /\ system = None
            /\ search_result = None /\ stages = <<>> /\ response = None
            /\ GOOGLE_API_KEY = <<>> /\ GOOGLE_SEARCH_ENGINE_ID = <<>>
            /\ google_results = None /\ http_log = <<>>
RerankIdle == /\ selection_count = 0 /\ boost = 0 /\ results_in = <<>>
              /\ selection_counts = <<>> /\ results_out = <<>>
RankIdle == selected_item = PyNone /\ candidates = PyNone /\ rank = NOT_FOUND
PipeIdle == /\ pipeline = None /\ corpus = <<>> /\ bm25_scores = <<>>
            /\ tfidf_scores = <<>> /\ cos_scores = <<>>
            /\ bm25_ids = <<>> /\ tfidf_ids = <<>> /\ search_candidates = <<>>
            /\ index_files = {} /\ embed_log = <<>> /\ search_error = None
MapIdle == /\ map_system = <<>> /\ search_out = <<>> /\ history = <<>>
           /\ mapping_result = <<>> /\ db_counts = <<>> /\ map_error = None
ConcIdle == shared = <<>> /\ callers = <<>> /\ argsort_order = None
MoreIdle == MapIdle /\ ConcIdle
LaterIdle == RerankIdle /\ RankIdle /\ PipeIdle /\ MoreIdle

----------------------------------------------------------------------------
(* Specification of the edit-distance matcher *)

InitLev ==
    /\ NormIdle /\ AutoIdle /\ LaterIdle
    /\ distance = None /\ test_log = <<>>
    /\ \/ pc = "call" /\ s1 \in LevStrings /\ s2 \in LevStrings
       \/ pc = "test" /\ s1 = <<>> /\ s2 = <<>>

levenshtein_call ==
    /\ pc = "call"
    /\ distance' = levenshtein_distance(s1, s2)
    /\ pc' = "done"
    /\ UNCHANGED <<s1, s2, test_log, normVars, autoVars, laterVars>>

test_levenshtein ==
    /\ pc = "test"
    /\ test_log' = [k \in DOMAIN test_cases |->
                      LET d == levenshtein_distance(test_cases[k][1], test_cases[k][2])
                      IN  [distance |-> d, expected |-> test_cases[k][3],
                           status |-> d = test_cases[k][3]]]
    /\ pc' = "tested"
    /\ UNCHANGED <<s1, s2, distance, normVars, autoVars, laterVars>>

NextLev == levenshtein_call \/ test_levenshtein

SpecLev == InitLev /\ [][NextLev]_vars

----------------------------------------------------------------------------
(* Specification of the normalizer *)

InitNorm ==
    /\ LevIdle /\ AutoIdle /\ LaterIdle
    /\ pc = "call" /\ text \in Texts /\ normalized = None

normalize_call ==
    /\ pc = "call"
    /\ normalized' = normalize(text)
    /\ pc' = "done"
    /\ UNCHANGED <<text, levVars, autoVars, laterVars>>

NextNorm == normalize_call

SpecNorm == InitNorm /\ [][NextNorm]_vars

----------------------------------------------------------------------------
(* Specification of the autocomplete routes *)

InitAuto ==
    /\ LevIdle /\ NormIdle /\ LaterIdle
    /\ pc = "request"
    /\ q \in Queries
    /\ \E g \in Groups, layout \in Layouts, n \in CatalogSizes :
          catalog = load_datasets(DataFiles(g, layout, n))
    /\ system = None /\ search_result = None /\ stages = <<>> /\ response = None
    /\ GOOGLE_API_KEY \in EnvValues /\ GOOGLE_SEARCH_ENGINE_ID \in EnvValues
    /\ google_results = None /\ http_log = <<>>

\* A handler that asks the web whenever no fuzzy suggestion exists.
autocomplete_route_eager(sys) ==
    /\ pc = "request"
    /\ system' = sys
    /\ \E run \in {autocomplete_run(q, catalog[sys])} :
          /\ search_result' = run.ret
          /\ stages' = run.ran
          /\ \E missing \in {MissingKey(run.ret)} :
                IF missing # None
                THEN response' = KeyError(missing) /\ pc' = "done"
                ELSE IF run.ret.has_fuzzy
                THEN response' = fuzzy_response(q, run.ret) /\ pc' = "done"
                ELSE response' = None /\ pc' = "google"
    /\ UNCHANGED <<q, catalog, GOOGLE_API_KEY, GOOGLE_SEARCH_ENGINE_ID,
                   google_results, http_log, levVars, normVars, laterVars>>

\* A route handler up to its return or to the await of the web search.
autocomplete_route(sys) ==
    /\ pc = "request"
    /\ system' = sys
    /\ \E run \in {autocomplete_run(q, catalog[sys])} :
          /\ search_result' = run.ret
          /\ stages' = run.ran
          /\ \E missing \in {MissingKey(run.ret)} :
                IF missing # None
                THEN response' = KeyError(missing) /\ pc' = "done"
                ELSE IF run.ret.has_fuzzy
                THEN response' = fuzzy_response(q, run.ret) /\ pc' = "done"
                ELSE IF Len(run.ret.results) = 0
                THEN response' = None /\ pc' = "google"
                ELSE response' = local_response(q, run.ret.results) /\ pc' = "done"
    /\ UNCHANGED <<q, catalog, GOOGLE_API_KEY, GOOGLE_SEARCH_ENGINE_ID,
                   google_results, http_log, levVars, normVars, laterVars>>

siddha_autocomplete       == autocomplete_route("siddha")
ayurveda_autocomplete     == autocomplete_route("ayurveda")
unani_autocomplete        == autocomplete_route("unani")
ayurveda_sat_autocomplete == autocomplete_route("ayurveda-sat")

\* The awaited google_search_fallback returns, and the handler goes on to its
\* return; an exception of the awaited call leaves the handler.
google_search_fallback ==
    /\ pc = "google"
    /\ \E net \in NetOutcomes :
          \E run \in {fallback_run(q, system, net)} :
             /\ http_log' = run.log
             /\ IF run.raised # None
                THEN /\ google_results' = None
                     /\ response' = [raised |-> run.raised]
                ELSE /\ google_results' = run.value
                     /\ response' = IF Len(run.value) > 0
                                    THEN google_response(q, run.value)
                                    ELSE local_response(q, search_result.results)
    /\ pc' = "done"
    /\ UNCHANGED <<q, catalog, system, search_result, stages,
                   GOOGLE_API_KEY, GOOGLE_SEARCH_ENGINE_ID, levVars, normVars, laterVars>>

NextAuto ==
    \/ siddha_autocomplete
    \/ ayurveda_autocomplete
    \/ unani_autocomplete
    \/ ayurveda_sat_autocomplete
    \/ google_search_fallback

SpecAuto == InitAuto /\ [][NextAuto]_vars

----------------------------------------------------------------------------
(* Claims about the edit-distance matcher *)

\* Every string one single-character insertion, deletion or substitution away.
SingleEdits(a, A) ==
    {SubSeq(a, 1, i) \o <<c>> \o SubSeq(a, i + 1, Len(a)) : i \in 0..Len(a), c \in A}
    \cup {SubSeq(a, 1, i - 1) \o SubSeq(a, i + 1, Len(a)) : i \in 1..Len(a)}
    \cup {[a EXCEPT ![i] = c] : i \in 1..Len(a), c \in A}

\* The least k such that k single edits turn some string of `reached` into b,
\* plus n.  Intermediate strings are at most one character longer than the
\* longest input string.
RECURSIVE EditsFrom(_, _, _)
EditsFrom(reached, b, n) ==
    IF b \in reached THEN n
    ELSE Bind(LAMBDA next : EditsFrom(next, b, n + 1),
              reached \cup {e \in UNION {SingleEdits(x, LevAlphabet) : x \in reached} :
                               Len(e) <= MaxLen + 1})

MinEdits(a, b) == EditsFrom({a}, b, 0)

\* C1: levenshtein_distance(a, b) is the minimum number of single-character
\* insertions, deletions or substitutions that turn a into b; it is 0 on equal
\* arguments and does not depend on the order of the arguments.
C1_LevenshteinIsMinEdits ==
    pc = "done" =>
        /\ distance = MinEdits(s1, s2)
        /\ (s1 = s2 => distance = 0)
        /\ distance = levenshtein_distance(s2, s1)

C1_Witness ==
    /\ pc = "done"
    /\ s1 = <<"a", "b">> /\ s2 = <<"b", "a", "c">>
    /\ distance = 2

\* C2: every line test_levenshtein prints carries the expected distance of the
\* test table.
C2_TestTableHolds ==
    pc = "tested" =>
        \A k \in DOMAIN test_log : test_log[k].distance = test_log[k].expected

----------------------------------------------------------------------------
(* Claims about the normalizer *)

IsAsciiLetter(c) == c \in LowerSet \/ c \in UpperSet

\* t without the characters that are no ASCII letter, digit or space.
RECURSIVE KeepAlnumSpace(_)
KeepAlnumSpace(t) ==
    IF t = <<>> THEN <<>>
    ELSE LET front == SubSeq(t, 1, Len(t) - 1)
             c     == t[Len(t)]
         IN  IF IsAsciiLetter(c) \/ c \in Digits \/ c = " "
             THEN Append(KeepAlnumSpace(front), c)
             ELSE KeepAlnumSpace(front)

\* C3: normalize returns the lower-cased input without the characters that are
\* no ASCII letter, digit or space, in order; the output holds only characters
\* of [a-z0-9 ], and the empty string gives the empty string.
C3_NormalizeContract ==
    pc = "done" =>
        /\ normalized = KeepAlnumSpace(lower(text))
        /\ \A i \in DOMAIN normalized :
               normalized[i] \in LowerSet \cup Digits \cup {" "}
        /\ (text = <<>> => normalized = <<>>)

C3_Witness ==
    /\ pc = "done"
    /\ text = <<"Z", "-", "U+0130">>
    /\ normalized = <<"z", "i">>

----------------------------------------------------------------------------
(* Claims about the fuzzy autocomplete matcher *)

\* The handler of `system` has called autocomplete_search.
Searched == pc \in {"done", "google"}

Dataset == catalog[system]

QueryNorm == normalize(q)

HasPrefix(s, p) == Len(p) <= Len(s) /\ \A i \in 1..Len(p) : s[i] = p[i]

SubstringOf(p, s) == \E a \in 1..(Len(s) + 1) : \E b \in (a - 1)..Len(s) : SubSeq(s, a, b) = p

\* The normalized term, code or definition of doc starts with qn.
PrefixHit(doc, qn) ==
    \E field \in {doc.term, doc.code, doc.definition} : HasPrefix(normalize(field), qn)

\* The normalized "term code definition" of doc contains qn.
BlobHit(doc, qn) ==
    SubstringOf(qn, normalize(doc.term \o <<" ">> \o doc.code \o <<" ">> \o doc.definition))

\* The elements of seq at the indices of the set I, in order.
RECURSIVE AtIndices(_, _)
AtIndices(seq, I) ==
    IF I = {} THEN <<>>
    ELSE LET m == CHOOSE x \in I : \A y \in I : y <= x
         IN  Append(AtIndices(seq, I \ {m}), seq[m])

PrefixHits(ds, qn) == AtIndices(ds, {i \in DOMAIN ds : PrefixHit(ds[i], qn)})

\* The documents the substring stage adds to the prefix matches: the first
\* occurrence of every document that contains qn and is no prefix match.
SubstringAdds(ds, qn) ==
    AtIndices(ds, {i \in DOMAIN ds :
                      /\ BlobHit(ds[i], qn)
                      /\ ~ PrefixHit(ds[i], qn)
                      /\ \A j \in 1..(i - 1) : ds[j] # ds[i]})

UniqueCodes(ds) == \A i, j \in DOMAIN ds : ds[i].code = ds[j].code => i = j

NoRepeat(seq) == \A i, j \in DOMAIN seq : seq[i] = seq[j] => i = j

\* C4: a query that normalizes to fewer than 2 characters gets the three
\* fields results = [], fuzzy_suggestions = [], has_fuzzy = False, and no
\* matching stage runs.
C4_ShortQueryThreeFields ==
    (Searched /\ Len(QueryNorm) < 2) =>
        /\ search_result = [results |-> <<>>, fuzzy_suggestions |-> <<>>, has_fuzzy |-> FALSE]
        /\ stages = <<>>

\* C5: for a query that normalizes to fewer than 2 characters every route
\* handler completes without raising and returns an empty result set.
C5_ShortQueryNoFailure ==
    (pc = "done" /\ Len(QueryNorm) < 2) =>
        /\ "raised" \notin DOMAIN response
        /\ response.results = <<>>

\* C6: results never has more than 20 entries, whichever stage made it.
C6_ResultsCapped ==
    (Searched /\ "results" \in DOMAIN search_result) => Len(search_result.results) <= 20

C6_Witness ==
    /\ Searched
    /\ stages = <<"prefix">>
    /\ Len(PrefixHits(Dataset, QueryNorm)) > 20
    /\ Len(search_result.results) = 20

\* C7: for a normalized query of length >= 2, results begins with the
\* documents that prefix-match, in catalog order and cut at 20, and no other
\* document precedes a prefix match.
C7_PrefixMatchesFirst ==
    (Searched /\ Len(QueryNorm) >= 2) =>
        \A hits \in {PrefixHits(Dataset, QueryNorm)} :
            LET results == search_result.results
                n       == IF Len(hits) < 20 THEN Len(hits) ELSE 20
            IN  /\ Len(results) >= n
                /\ SubSeq(results, 1, n) = SubSeq(hits, 1, n)
                /\ \A i, j \in DOMAIN results :
                       (i < j /\ PrefixHit(results[j], QueryNorm))
                           => PrefixHit(results[i], QueryNorm)

\* A substring-only match that stands before a prefix match in the catalog is
\* returned behind it.
C7_Witness ==
    /\ Searched /\ Len(QueryNorm) >= 2
    /\ \E i, j \in DOMAIN Dataset :
          /\ i < j
          /\ ~ PrefixHit(Dataset[i], QueryNorm) /\ BlobHit(Dataset[i], QueryNorm)
          /\ PrefixHit(Dataset[j], QueryNorm)
          /\ \E a, b \in DOMAIN search_result.results :
                /\ a < b
                /\ search_result.results[a] = Dataset[j]
                /\ search_result.results[b] = Dataset[i]

\* C8: the substring stage runs exactly when the prefix stage found fewer than
\* 20 documents; it adds, behind the prefix matches, every document that
\* contains the query and is not in results yet; and no document of a catalog
\* with unique codes is in results twice.
C8_SubstringStage ==
    (Searched /\ Len(QueryNorm) >= 2) =>
        \A hits \in {PrefixHits(Dataset, QueryNorm)} :
            /\ ("substring" \in Range(stages)) <=> (Len(hits) < 20)
            /\ ~ search_result.has_fuzzy =>
                  search_result.results =
                      Take(IF Len(hits) < 20
                           THEN hits \o SubstringAdds(Dataset, QueryNorm)
                           ELSE hits, 20)
            /\ UniqueCodes(Dataset) => NoRepeat(search_result.results)

\* The stage ran and added a document behind a prefix match.
C8_Witness ==
    /\ Searched /\ Len(QueryNorm) >= 2
    /\ UniqueCodes(Dataset)
    /\ stages = <<"prefix", "substring">>
    /\ Len(PrefixHits(Dataset, QueryNorm)) >= 1
    /\ Len(search_result.results) > Len(PrefixHits(Dataset, QueryNorm))

\* The stage is skipped although a document would match.
C8_SkipReached ==
    /\ Searched /\ Len(QueryNorm) >= 2
    /\ stages = <<"prefix">>
    /\ SubstringAdds(Dataset, QueryNorm) # <<>>

\* C9: the fuzzy stage runs only when no document prefix- or substring-matches
\* and the normalized query has length >= 3; every document that matches is
\* returned in results, with no fuzzy suggestion.
C9_EveryMatchReturned ==
    (Searched /\ Len(QueryNorm) >= 2) =>
        /\ "fuzzy" \in Range(stages) =>
              /\ Len(QueryNorm) >= 3
              /\ \A i \in DOMAIN Dataset : ~ BlobHit(Dataset[i], QueryNorm)
        /\ \A i \in DOMAIN Dataset :
              (PrefixHit(Dataset[i], QueryNorm) \/ BlobHit(Dataset[i], QueryNorm)) =>
                  /\ Dataset[i] \in Range(search_result.results)
                  /\ search_result.fuzzy_suggestions = <<>>
                  /\ search_result.has_fuzzy = FALSE

\* C9 as amended: a document that matches is returned in results unless 20
\* matches stand before it in the order prefix matches, then substring matches.
C9_MatchesReturnedUpToLimit ==
    (Searched /\ Len(QueryNorm) >= 2) =>
        /\ "fuzzy" \in Range(stages) =>
              /\ Len(QueryNorm) >= 3
              /\ \A i \in DOMAIN Dataset : ~ BlobHit(Dataset[i], QueryNorm)
        /\ \A i \in DOMAIN Dataset :
              (PrefixHit(Dataset[i], QueryNorm) \/ BlobHit(Dataset[i], QueryNorm)) =>
                  /\ "fuzzy" \notin Range(stages)
                  /\ \/ Dataset[i] \in Range(search_result.results)
                     \/ /\ Len(search_result.results) = 20
                        /\ \A k \in DOMAIN search_result.results :
                              \/ PrefixHit(search_result.results[k], QueryNorm)
                              \/ BlobHit(search_result.results[k], QueryNorm)
                  /\ search_result.fuzzy_suggestions = <<>>
                  /\ search_result.has_fuzzy = FALSE

C9_Witness ==
    /\ Searched
    /\ q = <<"f", "e">>
    /\ Len(Dataset) = 1
    /\ Dataset[1].term = <<"F","e","v","e","r"," ","d","i","s","o","r","d","e","r">>
    /\ stages = <<"prefix", "substring">>
    /\ search_result = [results |-> <<Dataset[1]>>, fuzzy_suggestions |-> <<>>,
                        has_fuzzy |-> FALSE]

\* The words of a normalized string: the maximal runs without a space.
WordsOf(t) ==
    {SubSeq(t, p[1], p[2]) :
        p \in {r \in (1..Len(t)) \X (1..Len(t)) :
                  /\ r[1] <= r[2]
                  /\ \A k \in r[1]..r[2] : t[k] # " "
                  /\ (r[1] = 1 \/ t[r[1] - 1] = " ")
                  /\ (r[2] = Len(t) \/ t[r[2] + 1] = " ")}}

\* The least edit distance from qn to the normalized term of doc, to its
\* normalized code and to the words of more than 2 characters of the term.
FuzzyDistance(doc, qn) ==
    Min({levenshtein_distance(qn, normalize(doc.term)),
         levenshtein_distance(qn, normalize(doc.code))}
        \cup {levenshtein_distance(qn, w) :
                 w \in {v \in WordsOf(normalize(doc.term)) : Len(v) > 2}})

DidYouMean(term) ==
    <<"D","i","d"," ","y","o","u"," ","m","e","a","n"," ","'">> \o term \o <<"'","?">>

----------------------------------------------------------------------------
(* Claims on the fuzzy example and on the web-search fallback *)

Febr == <<"f","e","b","r">>

SP42 ==
    [code |-> <<"S","P","4","2">>,
     term |-> <<"F","e","v","e","r"," ","d","i","s","o","r","d","e","r">>,
     definition |-> <<"H","i","g","h"," ","b","o","d","y"," ","t","e","m","p","e","r","a","t","u","r","e">>]

FebrOnSP42 == Searched /\ q = Febr /\ Dataset = <<SP42>>

\* C11: autocomplete_search with query 'febr' against the catalog holding only
\* SP42 'Fever disorder' returns that document in fuzzy_suggestions with
\* distance 1 and has_fuzzy True.
C11_FebrSuggestsFeverAtOne ==
    FebrOnSP42 =>
        /\ search_result.has_fuzzy = TRUE
        /\ \E k \in DOMAIN search_result.fuzzy_suggestions :
              /\ search_result.fuzzy_suggestions[k].item = SP42
              /\ search_result.fuzzy_suggestions[k].distance = 1

\* What the code returns for that input: the document, at distance 2.
C11_FebrSuggestsFeverAtTwo ==
    FebrOnSP42 =>
        /\ search_result.has_fuzzy = TRUE
        /\ search_result.results = <<SP42>>
        /\ search_result.fuzzy_suggestions =
              <<[item |-> SP42, distance |-> 2, suggestion_text |-> suggestion_text(SP42)]>>

C11_Reached == FebrOnSP42 /\ stages = <<"prefix", "substring", "fuzzy">>

CredentialsAbsent == GOOGLE_API_KEY = <<>> \/ GOOGLE_SEARCH_ENGINE_ID = <<>>

LocalEmpty ==
    /\ Len(search_result.results) = 0
    /\ Len(search_result.fuzzy_suggestions) = 0
    /\ search_result.has_fuzzy = FALSE

\* The web search is awaited only with finished, empty local matching, and a
\* google_fallback response stands only on empty local matching.
C12_FallbackOnlyWhenEmpty ==
    /\ pc = "google" => (Len(stages) > 0 /\ LocalEmpty /\ http_log = <<>>)
    /\ (pc = "done" /\ Len(http_log) > 0) => LocalEmpty
    /\ (pc = "done" /\ "source" \in DOMAIN response /\ response.source = "google_fallback")
          => LocalEmpty

\* A fallback that yields nothing makes the handler return the empty local
\* result.
C12_EmptyFallbackStep ==
    (pc = "google" /\ Len(google_results') = 0) => response' = local_response(q, <<>>)

\* C12: in every route handler the web-search fallback is invoked only after
\* local matching has finished and only when results is empty and no fuzzy
\* suggestion exists; no google_fallback response is produced when a local or
\* fuzzy result exists; and a fallback that yields nothing makes the handler
\* return the empty local result with source 'local'.
C12_FallbackTrigger == []C12_FallbackOnlyWhenEmpty /\ [][C12_EmptyFallbackStep]_vars

C12_Witness ==
    /\ pc = "done" /\ Len(http_log) > 0
    /\ response.source = "google_fallback"
    /\ Len(response.results) = MaxWebItems
    /\ Len(stages) > 0

C12_EmptyReached ==
    /\ pc = "done" /\ Len(http_log) > 0 /\ http_log[1].reply.status_code = 200
    /\ response = local_response(q, <<>>)

\* C13: google_search_fallback never raises to its caller; with an absent API
\* key or search-engine id it returns an empty list and sends no request; on
\* a status other than 200, a timeout or any exception during the call it
\* returns an empty list.
C13_FallbackStep ==
    pc = "google" =>
        /\ "raised" \notin DOMAIN response'
        /\ CredentialsAbsent => (http_log' = <<>> /\ google_results' = <<>>)
        /\ \A k \in DOMAIN http_log' :
              (\/ http_log'[k].reply.kind = "raise"
               \/ http_log'[k].reply.status_code # 200
               \/ http_log'[k].reply.json = "invalid") => google_results' = <<>>

C13_FallbackNeverRaises == [][C13_FallbackStep]_vars

C13_Witness ==
    /\ pc = "done" /\ Len(http_log) > 0
    /\ http_log[1].reply.kind = "raise"
    /\ response = local_response(q, <<>>)

C13_NoCredentialsReached ==
    /\ pc = "done" /\ Len(stages) > 0 /\ CredentialsAbsent
    /\ "source" \in DOMAIN response /\ response.source = "local"
    /\ Len(response.results) = 0 /\ http_log = <<>>

----------------------------------------------------------------------------
(* Re-ranking engine (reranking.py).  A float is a fixed-point integer:    *)
(* SCALE stands for 1.0, so a score or boost is given to four decimals,    *)
(* rounded down.                                                           *)

SCALE == 10000

MAX_BOOST     == SCALE \div 2       \* 0.5
BOOST_WEIGHT  == SCALE \div 10      \* 0.1
DEFAULT_SCORE == SCALE \div 2       \* 0.5, the base score of an item without 'score'
ROUND_UNIT    == SCALE \div 1000    \* round(boost, 3): 0.001

\* math.log10(x) * SCALE rounded down, for x = 1..40.
log10_small ==
    <<0, 3010, 4771, 6020, 6989, 7781, 8450, 9030, 9542, 10000,
      10413, 10791, 11139, 11461, 11760, 12041, 12304, 12552, 12787, 13010,
      13222, 13424, 13617, 13802, 13979, 14149, 14313, 14471, 14623, 14771,
      14913, 15051, 15185, 15314, 15440, 15563, 15682, 15797, 15910, 16020>>

\* The same for the large arguments used.
log10_large ==
    <<<<99, 19956>>, <<100, 20000>>, <<101, 20043>>,
      <<999, 29995>>, <<1000, 30000>>, <<1001, 30004>>,
      <<9999, 39999>>, <<10000, 40000>>, <<10001, 40000>>,
      <<99998, 49999>>, <<99999, 49999>>, <<100000, 50000>>,
      <<100001, 50000>>, <<100002, 50000>>,
      <<999999, 59999>>, <<1000000, 60000>>, <<1000001, 60000>>, <<1000002, 60000>>>>

log10(x) ==
    IF x \in DOMAIN log10_small THEN log10_small[x]
    ELSE log10_large[CHOOSE k \in DOMAIN log10_large : log10_large[k][1] = x][2]

calculate_boost_nocap(count) ==
    IF count <= 0 THEN 0
    ELSE (log10(count + 1) * BOOST_WEIGHT) \div SCALE

calculate_boost(count) ==
    IF count <= 0 THEN 0
    ELSE Min({(log10(count + 1) * BOOST_WEIGHT) \div SCALE, MAX_BOOST})

\* round(boost, 3); a boost is never exactly half way between two thousandths.
round3(x) == ((x + ROUND_UNIT \div 2) \div ROUND_UNIT) * ROUND_UNIT

\* selection_counts.get(code, 0)
count_of_default1(counts, code) == Get(counts, code, 1)

count_of(counts, code) == Get(counts, code, 0)

\* `if not code`: None and the empty string.
falsy(code) == code = None \/ code = ""

\* One round of the loop of apply_boost_to_results.
boosted_item_unrounded(item, counts) ==
    IF falsy(Get(item, "code", None)) THEN item
    ELSE [final_score |-> Get(item, "score", DEFAULT_SCORE)
                            + calculate_boost(count_of(counts, item.code)),
          boost_applied |-> calculate_boost(count_of(counts, item.code)),
          selection_count |-> count_of(counts, item.code)] @@ item

boosted_item(item, counts) ==
    IF falsy(Get(item, "code", None)) THEN item
    ELSE [final_score |-> Get(item, "score", DEFAULT_SCORE)
                            + calculate_boost(count_of(counts, item.code)),
          boost_applied |-> round3(calculate_boost(count_of(counts, item.code))),
          selection_count |-> count_of(counts, item.code)] @@ item

\* key=lambda x: x.get('final_score', x.get('score', 0))
final_score_key(x) == Get(x, "final_score", Get(x, "score", 0))

\* results.sort(key=..., reverse=True): stable, so an item goes behind every
\* item already placed whose key is not smaller.
sort_insert_desc_unstable(sorted, m) ==
    LET k == Cardinality({i \in DOMAIN sorted : final_score_key(sorted[i]) > final_score_key(m)})
    IN  SubSeq(sorted, 1, k) \o <<m>> \o SubSeq(sorted, k + 1, Len(sorted))

sort_insert_desc(sorted, m) ==
    LET k == Cardinality({i \in DOMAIN sorted : final_score_key(sorted[i]) >= final_score_key(m)})
    IN  SubSeq(sorted, 1, k) \o <<m>> \o SubSeq(sorted, k + 1, Len(sorted))

RECURSIVE sort_by_final_score(_, _)
sort_by_final_score(items, sorted) ==
    IF items = <<>> THEN sorted
    ELSE Bind(LAMBDA placed : sort_by_final_score(Tail(items), placed),
              sort_insert_desc(sorted, Head(items)))

\* A re-ranking that returns only the candidates it could boost.
apply_boost_to_results_coded(results, counts) ==
    sort_by_final_score(
        SelectSeq([i \in DOMAIN results |-> boosted_item(results[i], counts)],
                  LAMBDA item : "final_score" \in DOMAIN item),
        <<>>)

apply_boost_to_results(results, counts) ==
    sort_by_final_score([i \in DOMAIN results |-> boosted_item(results[i], counts)], <<>>)

----------------------------------------------------------------------------
(* Specification of the re-ranking engine *)

MaxCount      == 12   \* every selection count up to this one is tried
MaxCandidates == 3    \* longest candidate list

\* Counts around the powers of ten, up to beyond the cap.
LargeCounts == {99, 999, 9999, 99998, 99999, 100000, 1000000}

Counts == ((0 - 2)..MaxCount) \cup LargeCounts

CandidateCodes == {"SP42", "SP43"}

\* 0.50, 0.52, 0.5301 (= 0.50 + boost(1)) and 0.80.
Scores == {5000, 5200, 5301, 8000}

CandidateItems ==
    {[code |-> c, score |-> sc] : c \in CandidateCodes, sc \in Scores}
    \cup {[code |-> "", score |-> 5200], [score |-> 8000], [code |-> "SP42"]}

CandidateLists == UNION {[1..n -> CandidateItems] : n \in 0..MaxCandidates}

SelectionCounts == UNION {[D -> {0, 1, 10}] : D \in SUBSET CandidateCodes}

InitRerank ==
    /\ LevIdle /\ NormIdle /\ AutoIdle /\ RankIdle /\ PipeIdle /\ MoreIdle
    /\ boost = 0 /\ results_out = <<>>
    /\ \/ /\ pc = "calculate_boost"
          /\ selection_count \in Counts
          /\ results_in = <<>> /\ selection_counts = <<>>
       \/ /\ pc = "apply_boost_to_results"
          /\ selection_count = 0
          /\ results_in \in CandidateLists
          /\ selection_counts \in SelectionCounts

calculate_boost_call ==
    /\ pc = "calculate_boost"
    /\ boost' = calculate_boost(selection_count)
    /\ pc' = "boosted"
    /\ UNCHANGED <<selection_count, results_in, selection_counts, results_out,
                   levVars, normVars, autoVars, rankVars, pipeVars, moreVars>>

\* The loop writes into the items of the caller's list and the sort reorders
\* that list; selection_counts is only read.
apply_boost_to_results_call ==
    /\ pc = "apply_boost_to_results"
    /\ results_out' = apply_boost_to_results(results_in, selection_counts)
    /\ pc' = "reranked"
    /\ UNCHANGED <<selection_count, boost, results_in, selection_counts,
                   levVars, normVars, autoVars, rankVars, pipeVars, moreVars>>

NextRerank == calculate_boost_call \/ apply_boost_to_results_call

SpecRerank == InitRerank /\ [][NextRerank]_vars

----------------------------------------------------------------------------
(* Claims about the re-ranking engine *)

\* min(0.5, log10(n + 1) * 0.1) for n >= 0, written without the engine.
BoostFormula(n) ==
    IF log10(n + 1) \div 10 < SCALE \div 2 THEN log10(n + 1) \div 10 ELSE SCALE \div 2

C14_BelowCapReached == pc = "boosted" /\ selection_count = 10 /\ boost = 1041

Reranked == pc = "reranked"

HasCode(x) == "code" \in DOMAIN x /\ x.code # ""

\* The score a candidate came with.
BaseScore(x) == IF "score" \in DOMAIN x THEN x.score ELSE SCALE \div 2

\* The count the caller's history holds for the candidate.
CountFor(x) == IF x.code \in DOMAIN selection_counts THEN selection_counts[x.code] ELSE 0

Overtakes(i, j) == i < j

AllHaveScore(seq) == \A k \in DOMAIN seq : "score" \in DOMAIN seq[k]

WithoutBoost(x) == [f \in DOMAIN x \ {"final_score", "boost_applied", "selection_count"} |-> x[f]]

\* The original wording of C15: with a count of 0 or 1 a candidate keeps its
\* base score and stays behind every count-0 candidate of higher base score.
C15_ZeroOrOneNeverMoves ==
    Reranked =>
        \A i, j \in DOMAIN results_out :
            (/\ HasCode(results_out[i]) /\ HasCode(results_out[j])
             /\ CountFor(results_out[i]) \in {0, 1}
             /\ CountFor(results_out[j]) = 0
             /\ BaseScore(results_out[j]) > BaseScore(results_out[i]))
            => /\ results_out[i].final_score = BaseScore(results_out[i])
               /\ ~Overtakes(i, j)

\* C15: zero selections never move a candidate: a candidate with selection
\* count 0 keeps its base score as final_score and never overtakes a
\* candidate of strictly higher base score; a single selection gives the
\* boost log10(2) * 0.1 = 0.0301.
C15_ZeroNeverMoves ==
    Reranked =>
        /\ \A i \in DOMAIN results_out :
              HasCode(results_out[i]) =>
                 /\ CountFor(results_out[i]) = 0 =>
                       /\ results_out[i].final_score = BaseScore(results_out[i])
                       /\ \A j \in DOMAIN results_out :
                             (HasCode(results_out[j])
                              /\ BaseScore(results_out[j]) > BaseScore(results_out[i]))
                             => ~Overtakes(i, j)
                 /\ CountFor(results_out[i]) = 1 =>
                       results_out[i].final_score = BaseScore(results_out[i]) + 301

\* A candidate selected once stands before a never selected one of higher
\* base score.
C15_Witness ==
    /\ Reranked /\ Len(results_out) = 2
    /\ HasCode(results_out[1]) /\ HasCode(results_out[2])
    /\ CountFor(results_out[1]) = 1 /\ CountFor(results_out[2]) = 0
    /\ AllHaveScore(results_out)
    /\ results_out[1].score = 5000 /\ results_out[2].score = 5200
    /\ results_in = <<WithoutBoost(results_out[2]), WithoutBoost(results_out[1])>>

Rounded(b) == IF b % 10 < 5 THEN b - (b % 10) ELSE b - (b % 10) + 10

Times(seq, v) == Cardinality({k \in DOMAIN seq : seq[k] = v})

SameItems(a, b) ==
    /\ Len(a) = Len(b)
    /\ \A k \in DOMAIN a : Times(a, a[k]) = Times(b, a[k])

WithRawBoost(x) ==
    [final_score |-> BaseScore(x) + BoostFormula(CountFor(x)),
     boost_applied |-> BoostFormula(CountFor(x)),
     selection_count |-> CountFor(x)] @@ x

WithRoundedBoost(x) ==
    [final_score |-> BaseScore(x) + BoostFormula(CountFor(x)),
     boost_applied |-> Rounded(BoostFormula(CountFor(x))),
     selection_count |-> CountFor(x)] @@ x

\* The original wording of C16: every candidate of the input list carries
\* final_score, the unrounded boost and the count used.
C16_EveryCandidateRawBoost ==
    Reranked =>
        SameItems([k \in DOMAIN results_in |-> WithRawBoost(results_in[k])], results_out)

C16_Fields ==
    Reranked =>
        SameItems([k \in DOMAIN results_in |->
                      IF HasCode(results_in[k]) THEN WithRoundedBoost(results_in[k])
                      ELSE results_in[k]],
                  results_out)

\* C16: after apply_boost_to_results every candidate of the input list that
\* has a code carries final_score = base score + boost(count), boost_applied =
\* that boost rounded to three decimals, and the selection count used; a
\* candidate without a code is left as it was; selection_counts is unchanged.
C16_BoostRecorded == []C16_Fields /\ [][selection_counts' = selection_counts]_vars

\* SP42 selected 10 times, base score 0.80: final_score 0.9041, recorded 0.104.
C16_Witness ==
    /\ Reranked /\ Len(results_out) > 0
    /\ selection_counts = [c \in {"SP42"} |-> 10]
    /\ results_out[1] = [code |-> "SP42", score |-> 8000, final_score |-> 9041,
                         boost_applied |-> 1040, selection_count |-> 10]

SortKey(x) == IF "final_score" \in DOMAIN x THEN x.final_score
              ELSE IF "score" \in DOMAIN x THEN x.score ELSE 0

\* The place of item i of seq in the stable descending order by SortKey.
StablePlace(seq, i) ==
    1 + Cardinality({j \in DOMAIN seq :
                        \/ SortKey(seq[j]) > SortKey(seq[i])
                        \/ SortKey(seq[j]) = SortKey(seq[i]) /\ j < i})

\* C17: the returned list is in non-increasing order of final_score, equal
\* final scores keep their order of the input list, and a list sorted
\* descending by score re-ranked with all counts zero keeps its order.
C17_SortedStable ==
    Reranked =>
        /\ \A i, j \in DOMAIN results_out :
              (i < j /\ "final_score" \in DOMAIN results_out[i]
                     /\ "final_score" \in DOMAIN results_out[j])
              => results_out[i].final_score >= results_out[j].final_score
        /\ \E boosted \in {[k \in DOMAIN results_in |->
                              IF HasCode(results_in[k]) THEN WithRoundedBoost(results_in[k])
                              ELSE results_in[k]]} :
              \A k \in DOMAIN boosted : results_out[StablePlace(boosted, k)] = boosted[k]
        /\ (/\ AllHaveScore(results_in)
            /\ \A c \in DOMAIN selection_counts : selection_counts[c] = 0
            /\ \A i, j \in DOMAIN results_in : i < j => results_in[i].score >= results_in[j].score)
           => \A k \in DOMAIN results_in : WithoutBoost(results_out[k]) = results_in[k]

\* Two different candidates end with the same final score, the boosted one
\* first in the input, and a third candidate moves in front of them.
C17_Witness ==
    /\ Reranked /\ Len(results_out) = 3
    /\ \A k \in DOMAIN results_in : HasCode(results_in[k])
    /\ results_in[1].code = "SP42" /\ results_in[2].code = "SP43"
    /\ results_out[2] = WithRoundedBoost(results_in[1])
    /\ results_out[3] = WithRoundedBoost(results_in[2])
    /\ results_out[2].final_score = results_out[3].final_score
    /\ results_out[2].selection_count = 1 /\ results_out[3].selection_count = 0
    /\ results_out[1].final_score > results_out[2].final_score

----------------------------------------------------------------------------
(* _find_rank of database.py and of cli_app.py (the same body twice) *)

RANK_WINDOW == 10

\* `not x` of a dict or list that may be None.
not(x) == x.none \/ DOMAIN x.value = {}

\* for i, candidate in enumerate(window, 1): the first i whose code is the
\* selected one.
RECURSIVE enumerate_from(_, _, _)
enumerate_from(window, selected_code, i) ==
    IF i > Len(window) THEN NOT_FOUND
    ELSE IF Get(window[i], "code", None) = selected_code THEN i
    ELSE enumerate_from(window, selected_code, i + 1)

find_rank_whole_list(selected, cands) ==
    IF not(selected) \/ not(cands) THEN NOT_FOUND
    ELSE enumerate_from(cands.value, Get(selected.value, "code", None), 1)

find_rank(selected, cands) ==
    IF not(selected) \/ not(cands) THEN NOT_FOUND
    ELSE enumerate_from(Take(cands.value, RANK_WINDOW), Get(selected.value, "code", None), 1)

MaxListLen == 11    \* longest candidate list, one beyond the window

RankCodes == {"SP42", "SP43"}

SelectedItems ==
    {PyNone, Py(<<>>), Py([term |-> "Fever"])}
    \cup {Py([code |-> c]) : c \in RankCodes \cup {"SP44"}}

RankLists ==
    UNION {[1..n -> {[code |-> c, score |-> 5000] : c \in RankCodes}] : n \in 0..MaxListLen}
    \cup {<<[term |-> "Fever"], [code |-> "SP44"]>>}

InitRank ==
    /\ LevIdle /\ NormIdle /\ AutoIdle /\ RerankIdle /\ PipeIdle /\ MoreIdle
    /\ pc = "find_rank"
    /\ selected_item \in SelectedItems
    /\ candidates \in {PyNone} \cup {Py(l) : l \in RankLists}
    /\ rank = NOT_FOUND

find_rank_call(position) ==
    /\ pc = "find_rank"
    /\ rank' = find_rank(selected_item, candidates)
    /\ pc' = position
    /\ UNCHANGED <<selected_item, candidates, levVars, normVars, autoVars, rerankVars, pipeVars, moreVars>>

MappingDatabase_find_rank == find_rank_call("ranked in database")

TMICDMapper_find_rank == find_rank_call("ranked in cli_app")

NextRank == MappingDatabase_find_rank \/ TMICDMapper_find_rank

SpecRank == InitRank /\ [][NextRank]_vars

----------------------------------------------------------------------------
(* Claims about _find_rank *)

Ranked == pc \in {"ranked in database", "ranked in cli_app"}

CodeOf(x) == IF "code" \in DOMAIN x THEN x.code ELSE None

\* The positions among the first 10 whose code is the selected item's.
PlacesInWindow ==
    {i \in DOMAIN candidates.value :
        i <= 10 /\ CodeOf(candidates.value[i]) = CodeOf(selected_item.value)}

\* C18: _find_rank returns the 1-based position of the first candidate among
\* the first 10 whose code equals the selected item's code, and None when the
\* selected item or the list is empty or None or the code does not occur
\* among the first 10.
C18_FindRank ==
    Ranked =>
        IF \/ selected_item.none \/ DOMAIN selected_item.value = {}
           \/ candidates.none \/ Len(candidates.value) = 0
           \/ PlacesInWindow = {}
        THEN rank = NOT_FOUND
        ELSE rank \in PlacesInWindow /\ \A i \in PlacesInWindow : rank <= i

\* The selected code stands at position 11 only: not found.
C18_Witness ==
    /\ Ranked /\ rank = NOT_FOUND
    /\ ~selected_item.none /\ ~candidates.none
    /\ Len(candidates.value) = 11
    /\ CodeOf(selected_item.value) = "SP43"
    /\ CodeOf(candidates.value[11]) = "SP43"

C18_SecondOfTwoReached ==
    /\ Ranked /\ rank = 3
    /\ ~candidates.none /\ Len(candidates.value) = 5
    /\ CodeOf(candidates.value[5]) = CodeOf(selected_item.value)

----------------------------------------------------------------------------
(* Cascading retrieval pipeline (search.py, search_ayurveda_sat.py).  The   *)
(* scoring libraries are outside the model: bm25_scores, tfidf_scores and   *)
(* cos_scores hold what they give for the query, per document, in units of  *)
(* 1/SCALE.  Document i of the model is index i - 1 of the arrays.          *)

BM25_TOP_K     == 100
TFIDF_TOP_K    == 60
SEMANTIC_TOP_K == 10

\* The place of index i in np.argsort(scores): ascending by score; the order
\* numpy's default sort leaves among equal scores is not fixed, tiebreak is
\* the one it takes.
place_of(scores, tiebreak, i) ==
    1 + Cardinality({j \in DOMAIN scores :
                        \/ scores[j] < scores[i]
                        \/ scores[j] = scores[i] /\ tiebreak[j] < tiebreak[i]})

argsort(scores, tiebreak) ==
    Bind(LAMBDA place : [k \in DOMAIN scores |-> CHOOSE i \in DOMAIN scores : place[i] = k],
         [i \in DOMAIN scores |-> place_of(scores, tiebreak, i)])

\* seq[::-1]
reversed(seq) == [k \in DOMAIN seq |-> seq[Len(seq) + 1 - k]]

\* np.argsort(scores)[::-1]
top_indices_all(scores, top_k, tiebreak) == reversed(argsort(scores, tiebreak))

\* np.argsort(scores)[::-1][:top_k]
top_indices(scores, top_k, tiebreak) == Take(reversed(argsort(scores, tiebreak)), top_k)

\* A stage 1 that keeps only documents sharing a term with the query.
bm25_search_positive(top_k, tiebreak) ==
    SelectSeq(top_indices(bm25_scores, top_k, tiebreak), LAMBDA i : bm25_scores[i] > 0)

bm25_search(top_k, tiebreak) == top_indices(bm25_scores, top_k, tiebreak)

\* The scores of the candidates only, in the order of candidate_ids.
sub_scores(table, candidate_ids) == [k \in DOMAIN candidate_ids |-> table[candidate_ids[k]]]

tfidf_rerank_local(candidate_ids, top_k, tiebreak) ==
    top_indices(sub_scores(tfidf_scores, candidate_ids), top_k, tiebreak)

tfidf_rerank(candidate_ids, top_k, tiebreak) ==
    Bind(LAMBDA top_local : [k \in DOMAIN top_local |-> candidate_ids[top_local[k]]],
         top_indices(sub_scores(tfidf_scores, candidate_ids), top_k, tiebreak))

NO_DESCRIPTION == "No description available."

\* The entry with the local index taken for a catalog index.
candidate_entry_local_code(name, candidate_ids, scores, i) ==
    [code |-> corpus[i].code, term |-> corpus[i].term, score |-> scores[i]]

\* One entry of the list semantic_rerank returns, for local index i; scores
\* are the candidates' scores.
candidate_entry(name, candidate_ids, scores, i) ==
    IF name = "search_siddha"
    THEN [code |-> corpus[candidate_ids[i]].code, term |-> corpus[candidate_ids[i]].term,
          score |-> scores[i]]
    ELSE [code |-> corpus[candidate_ids[i]].code, term |-> corpus[candidate_ids[i]].term,
          definition |-> IF corpus[candidate_ids[i]].definition # <<>>
                         THEN corpus[candidate_ids[i]].definition ELSE NO_DESCRIPTION,
          score |-> scores[i]]

semantic_entries(name, candidate_ids, scores, top_k, tiebreak) ==
    Bind(LAMBDA top_local : [k \in DOMAIN top_local |->
                                candidate_entry(name, candidate_ids, scores, top_local[k])],
         top_indices(scores, top_k, tiebreak))

semantic_rerank(name, candidate_ids, top_k, tiebreak) ==
    semantic_entries(name, candidate_ids, sub_scores(cos_scores, candidate_ids), top_k, tiebreak)

\* The files a search module opens while it is imported.
INDEX_FILES ==
    {"data.json", "bm25.pkl", "tfidf.pkl", "tfidf_matrix.npz",
     "embeddings.npy", "embeddings_meta.pkl"}

\* Module-level loading: open() raises for a file that is not there.  What
\* was loaded is taken as it is; no length is compared with another.
load_error(files) ==
    IF INDEX_FILES \subseteq files THEN None ELSE "FileNotFoundError"

\* table[ids] and a_list[i] raise IndexError for an index past the end.
IndexError == "IndexError"

out_of_range(table, ids) == \E k \in DOMAIN ids : ids[k] \notin DOMAIN table

\* tfidf_rerank as a call: what it raises, or else what it returns.
tfidf_attempt(candidate_ids, top_k, tiebreak) ==
    IF out_of_range(tfidf_scores, candidate_ids)
    THEN [raised |-> IndexError, value |-> <<>>]
    ELSE [raised |-> None, value |-> tfidf_rerank(candidate_ids, top_k, tiebreak)]

\* What embedder.encode raises when the embedding provider fails.
EncodeError == "EncodeError"

\* The catalog indices semantic_rerank reads codes and terms at.
semantic_lookups(candidate_ids, top_k, tiebreak) ==
    Bind(LAMBDA top_local : [k \in DOMAIN top_local |-> candidate_ids[top_local[k]]],
         top_indices(sub_scores(cos_scores, candidate_ids), top_k, tiebreak))

\* semantic_rerank as a call; encoded is the outcome of embedder.encode,
\* which is its first statement.
semantic_attempt(name, candidate_ids, top_k, tiebreak, encoded) ==
    IF encoded # "ok"
    THEN [raised |-> EncodeError, value |-> <<>>]
    ELSE IF out_of_range(cos_scores, candidate_ids)
    THEN [raised |-> IndexError, value |-> <<>>]
    ELSE IF out_of_range(corpus, semantic_lookups(candidate_ids, top_k, tiebreak))
    THEN [raised |-> IndexError, value |-> <<>>]
    ELSE [raised |-> None, value |-> semantic_rerank(name, candidate_ids, top_k, tiebreak)]

\* A search function that gives the list of stage 2 when stage 3 raised.
pipeline_result_partial(attempt, candidate_ids) ==
    IF attempt.raised = None THEN attempt
    ELSE [raised |-> None,
          value |-> [k \in DOMAIN candidate_ids |-> [code |-> <<"S">> \o decimal(candidate_ids[k])]]]

\* candidates = semantic_rerank(...); return {"candidates": candidates}: no
\* try statement stands around the call, its exception leaves the function.
pipeline_result(attempt, candidate_ids) == attempt

----------------------------------------------------------------------------
(* Specification of the pipeline *)

SmallCatalog == 2    \* every catalog size from 1 up to this one is tried
MaxTieLen    == 3    \* up to this length every order among equal scores is tried

\* Sizes at which a stage has one document more than it keeps.
CatalogLengths ==
    (1..SmallCatalog) \cup {SEMANTIC_TOP_K + 1, TFIDF_TOP_K + 1, BM25_TOP_K + 1}

\* Document i: its code is S<i>; every third document has no definition.
Corpus(n) ==
    [i \in 1..n |->
        [code |-> <<"S">> \o decimal(i), term |-> <<"t">> \o decimal(i),
         definition |-> IF i % 3 = 0 THEN <<>> ELSE <<"d">>]]

ScorePatterns == {"zero", "rising", "falling", "waves"}

ScoreTable(pattern, n) ==
    [i \in 1..n |->
        CASE pattern = "zero"    -> 0
          [] pattern = "rising"  -> i * 10
          [] pattern = "falling" -> (n - i) * 10
          [] pattern = "waves"   -> ((i * 7) % 5) * 1000]

ScoreTables(n) ==
    {ScoreTable(pattern, n) : pattern \in ScorePatterns}
    \cup (IF n <= SmallCatalog THEN [1..n -> {0, 5000}] ELSE {})

\* The orders the sort may leave among equal scores of an array of length n.
TieOrders(n) ==
    IF n <= MaxTieLen THEN Permutations(1..n)
    ELSE {[i \in 1..n |-> i], [i \in 1..n |-> n + 1 - i]}

\* The lengths of what a module loads: the catalog of the data file, and the
\* three index tables as they were built.
Matched(n) == [codes |-> n, bm25 |-> n, tfidf_matrix |-> n, embeddings |-> n]

\* One of the four comes from another build and is one document longer or
\* shorter.  An index table holds at least one document: BM25Okapi and
\* TfidfVectorizer cannot be built over none.
Mismatched ==
    {layout \in {[Matched(n) EXCEPT ![t] = n + d] :
                    n \in 1..SmallCatalog,
                    t \in {"codes", "bm25", "tfidf_matrix", "embeddings"},
                    d \in {-1, 1}} :
        layout.bm25 >= 1 /\ layout.tfidf_matrix >= 1 /\ layout.embeddings >= 1}

\* The directories at import: complete, or one file is not there.
FileSets == {INDEX_FILES} \cup {INDEX_FILES \ {f} : f \in INDEX_FILES}

EncodeOutcomes == {"ok", "raise"}

InitPipe ==
    /\ LevIdle /\ NormIdle /\ AutoIdle /\ RerankIdle /\ RankIdle /\ MoreIdle
    /\ pc = "load"
    /\ pipeline \in {"search_siddha", "search_ayurveda_sat"}
    /\ \/ \E n \in CatalogLengths :
             /\ corpus = Corpus(n)
             /\ bm25_scores \in ScoreTables(n)
             /\ tfidf_scores \in ScoreTables(n)
             /\ cos_scores \in ScoreTables(n)
             /\ index_files = INDEX_FILES
       \/ \E layout \in Mismatched :
             /\ corpus = Corpus(layout.codes)
             /\ \E p \in ScorePatterns : bm25_scores = ScoreTable(p, layout.bm25)
             /\ \E p \in ScorePatterns : tfidf_scores = ScoreTable(p, layout.tfidf_matrix)
             /\ \E p \in ScorePatterns : cos_scores = ScoreTable(p, layout.embeddings)
             /\ index_files = INDEX_FILES
       \/ /\ corpus = Corpus(1)
          /\ bm25_scores = ScoreTable("rising", 1)
          /\ tfidf_scores = ScoreTable("rising", 1)
          /\ cos_scores = ScoreTable("rising", 1)
          /\ index_files \in FileSets
    /\ bm25_ids = <<>> /\ tfidf_ids = <<>> /\ search_candidates = <<>>
    /\ embed_log = <<>> /\ search_error = None

\* The import of the search module.
load_indexes ==
    /\ pc = "load"
    /\ search_error' = load_error(index_files)
    /\ pc' = IF load_error(index_files) = None THEN "search" ELSE "import failed"
    /\ UNCHANGED <<pipeline, corpus, bm25_scores, tfidf_scores, cos_scores,
                   bm25_ids, tfidf_ids, search_candidates, index_files, embed_log,
                   levVars, normVars, autoVars, rerankVars, rankVars, moreVars>>

\* Stage 1 of search_siddha / search_ayurveda_sat.
bm25_search_step ==
    /\ pc = "search"
    /\ \E tiebreak \in TieOrders(Len(bm25_scores)) :
          bm25_ids' = bm25_search(BM25_TOP_K, tiebreak)
    /\ pc' = "stage 1 done"
    /\ UNCHANGED <<pipeline, corpus, bm25_scores, tfidf_scores, cos_scores,
                   tfidf_ids, search_candidates, index_files, embed_log, search_error,
                   levVars, normVars, autoVars, rerankVars, rankVars, moreVars>>

\* Stage 2.
tfidf_rerank_step ==
    /\ pc = "stage 1 done"
    /\ \E tiebreak \in TieOrders(Len(bm25_ids)) :
          \E run \in {tfidf_attempt(bm25_ids, TFIDF_TOP_K, tiebreak)} :
             /\ search_error' = run.raised
             /\ tfidf_ids' = run.value
             /\ pc' = IF run.raised = None THEN "stage 2 done" ELSE "raised"
    /\ UNCHANGED <<pipeline, corpus, bm25_scores, tfidf_scores, cos_scores,
                   bm25_ids, search_candidates, index_files, embed_log,
                   levVars, normVars, autoVars, rerankVars, rankVars, moreVars>>

\* Stage 3 and the return of the pipeline.
semantic_rerank_step(name) ==
    /\ pc = "stage 2 done"
    /\ pipeline = name
    /\ \E tiebreak \in TieOrders(Len(tfidf_ids)) :
          \E encoded \in EncodeOutcomes :
             \E run \in {pipeline_result(
                            semantic_attempt(name, tfidf_ids, SEMANTIC_TOP_K, tiebreak, encoded),
                            tfidf_ids)} :
                /\ embed_log' = Append(embed_log, encoded)
                /\ search_error' = run.raised
                /\ search_candidates' = run.value
                /\ pc' = IF run.raised = None THEN "returned" ELSE "raised"
    /\ UNCHANGED <<pipeline, corpus, bm25_scores, tfidf_scores, cos_scores,
                   bm25_ids, tfidf_ids, index_files,
                   levVars, normVars, autoVars, rerankVars, rankVars, moreVars>>

search_siddha == semantic_rerank_step("search_siddha")

search_ayurveda_sat == semantic_rerank_step("search_ayurveda_sat")

NextPipe ==
    \/ load_indexes
    \/ bm25_search_step
    \/ tfidf_rerank_step
    \/ search_siddha
    \/ search_ayurveda_sat

SpecPipe == InitPipe /\ [][NextPipe]_vars

----------------------------------------------------------------------------
(* Claims about the pipeline *)

Stage1Done == pc \in {"stage 1 done", "stage 2 done", "returned", "raised"}
Stage2Done == pc \in {"stage 2 done", "returned"}
Stage3Done == pc = "returned"

\* The codes of the documents with the given indices (an index table built
\* from another catalog may hold indices the catalog does not have).
CodesAt(ids) == {corpus[i].code : i \in Range(ids) \cap DOMAIN corpus}

ReturnedCodes == {search_candidates[k].code : k \in DOMAIN search_candidates}

\* C19: within one pipeline invocation the documents output by stage 2 are
\* among those output by stage 1, and those output by stage 3 among those
\* output by stage 2: no document an earlier stage excluded reappears.
C19_StageNarrowing ==
    /\ Stage2Done => /\ Range(tfidf_ids) \subseteq Range(bm25_ids)
                     /\ CodesAt(tfidf_ids) \subseteq CodesAt(bm25_ids)
    /\ Stage3Done => /\ ReturnedCodes \subseteq CodesAt(tfidf_ids)
                     /\ ReturnedCodes \subseteq CodesAt(bm25_ids)

\* Every stage has dropped a document, and stage 2 kept documents that are
\* not the first of the catalog.
C19_Witness ==
    /\ Stage3Done
    /\ Len(corpus) > Len(bm25_ids)
    /\ Len(bm25_ids) > Len(tfidf_ids)
    /\ Len(tfidf_ids) > Len(search_candidates)
    /\ Len(search_candidates) > 0
    /\ 1 \notin Range(bm25_ids)

\* C20: for every query and catalog size the pipeline keeps at most 100
\* documents after stage 1, at most 60 after stage 2, and returns at most 10
\* candidates.
C20_StageLimits ==
    /\ Stage1Done => Len(bm25_ids) <= 100
    /\ Stage2Done => Len(tfidf_ids) <= 60
    /\ Stage3Done => Len(search_candidates) <= 10

C20_Witness ==
    /\ Stage3Done
    /\ Len(corpus) = 101
    /\ Len(bm25_ids) = 100 /\ Len(tfidf_ids) = 60 /\ Len(search_candidates) = 10

\* The place of document index i in a stage's output list.
PlaceIn(ids, i) == CHOOSE k \in DOMAIN ids : ids[k] = i

\* In the list ids, documents with equal score in the table stand in the
\* order given by earlier(i, j).
TiesFollow(ids, table, earlier(_, _)) ==
    \A a, b \in DOMAIN ids :
        (a < b /\ table[ids[a]] = table[ids[b]]) => earlier(ids[a], ids[b])

\* The documents of the returned list, as catalog indices.
ReturnedIds ==
    [k \in DOMAIN search_candidates |->
        CHOOSE i \in DOMAIN corpus : corpus[i].code = search_candidates[k].code]

\* C21: ties follow the earlier ranking at every stage: among documents with
\* equal stage-1 score the one earlier in the catalog ranks first, among
\* documents with equal stage-2 similarity the one with the better stage-1
\* rank, among documents with equal stage-3 similarity the one with the
\* better stage-2 rank.
C21_TiesFollowEarlierRank ==
    /\ Stage1Done => TiesFollow(bm25_ids, bm25_scores, LAMBDA i, j : i < j)
    /\ Stage2Done => TiesFollow(tfidf_ids, tfidf_scores,
                                LAMBDA i, j : PlaceIn(bm25_ids, i) < PlaceIn(bm25_ids, j))
    /\ Stage3Done => TiesFollow(ReturnedIds, cos_scores,
                                LAMBDA i, j : PlaceIn(tfidf_ids, i) < PlaceIn(tfidf_ids, j))

\* Two documents tie at stage 1 and the later one of the catalog is first.
C21_LaterDocumentFirst ==
    /\ Stage1Done
    /\ Len(bm25_ids) = 2
    /\ bm25_scores[1] = bm25_scores[2]
    /\ bm25_ids = <<2, 1>>

\* C22: the returned list is ordered most relevant first: scores do not
\* increase along it, and code, term and score of each entry are those of one
\* and the same document, the score being its stage-3 similarity.
C22_OrderedWithOwnScores ==
    Stage3Done =>
        /\ \A k \in DOMAIN search_candidates :
              \E i \in DOMAIN corpus :
                 /\ search_candidates[k].code = corpus[i].code
                 /\ search_candidates[k].term = corpus[i].term
                 /\ search_candidates[k].score = cos_scores[i]
        /\ \A a, b \in DOMAIN search_candidates :
              a < b => search_candidates[a].score >= search_candidates[b].score

\* Several documents with different similarities are returned, and the first
\* of them is neither the first document of the catalog nor the first that
\* stage 2 handed over.
C22_Witness ==
    /\ Stage3Done
    /\ Len(search_candidates) >= 2
    /\ search_candidates[1].score > search_candidates[Len(search_candidates)].score
    /\ search_candidates[1].code # corpus[1].code
    /\ search_candidates[1].code # corpus[tfidf_ids[1]].code

\* C23: when the embedding-provider call of stage 3 fails, the search fails
\* as a whole, the error reaching its caller: it returns neither the list of
\* stage 2 nor any other list, and it never returns without the call having
\* been made and answered.
C23_EncodeFailurePropagates ==
    /\ (embed_log # <<>> /\ embed_log[Len(embed_log)] = "raise")
          => /\ pc = "raised"
             /\ search_error = EncodeError
             /\ search_candidates = <<>>
    /\ pc = "returned" => embed_log = <<"ok">>

\* The provider failed with a list of stage 2 at hand.
C23_Witness ==
    /\ pc = "raised"
    /\ embed_log = <<"raise">>
    /\ Len(tfidf_ids) >= 2

\* The three index tables are not of one length.
TablesDiffer ==
    ~(Len(bm25_scores) = Len(tfidf_scores) /\ Len(tfidf_scores) = Len(cos_scores))

\* C24: when the lexical index, the weighted-vector table and the embedding
\* table differ in length, or one is missing, loading fails and no query is
\* served: a search never runs against tables of mismatched length.
C24_MismatchFailsAtLoad ==
    (pipeline # None /\ (TablesDiffer \/ index_files # INDEX_FILES))
        => pc \in {"load", "import failed"}

\* The part that holds: with a file missing the import fails.
C24_MissingFileFailsImport ==
    (pipeline # None /\ index_files # INDEX_FILES) => pc \in {"load", "import failed"}

\* A search over tables of different lengths that returned candidates.
C24_MismatchedSearchReturned ==
    /\ TablesDiffer
    /\ pc = "returned"
    /\ Len(search_candidates) > 0

\* C25: with an empty corpus the search returns an empty list at once: stage
\* 2 and stage 3 do not run, the embedding provider is not called, nothing
\* is raised.
C25_EmptyCorpusReturnsAtOnce ==
    (pipeline # None /\ Len(corpus) = 0)
        => /\ pc \notin {"stage 2 done", "raised", "import failed"}
           /\ embed_log = <<>>
           /\ search_error = None
           /\ tfidf_ids = <<>>

\* The search over an empty catalog called the provider and then raised.
C25_EmptyCorpusRaised ==
    /\ Len(corpus) = 0
    /\ pc = "raised"
    /\ embed_log = <<"ok">>
    /\ search_error = IndexError

\* The catalog and the three index tables are of one length.
TablesMatch ==
    /\ Len(corpus) = Len(bm25_scores)
    /\ ~TablesDiffer

----------------------------------------------------------------------------
(* Further claims about the re-ranking engine *)

\* C27: apply_boost_to_results never drops, duplicates or adds a candidate:
\* the returned list is a permutation of the input list, each candidate with
\* the fields it came with (its base score among them), candidates without a
\* code included.
C27_PermutationOfInput ==
    Reranked =>
        SameItems([k \in DOMAIN results_out |-> WithoutBoost(results_out[k])], results_in)

\* Three candidates, one of them without a code and one twice in the list,
\* come back in another order.
C27_Witness ==
    /\ Reranked
    /\ Len(results_out) = 3
    /\ \E k \in DOMAIN results_out : ~HasCode(results_out[k])
    /\ \E k \in DOMAIN results_in : Times(results_in, results_in[k]) = 2
    /\ WithoutBoost(results_out[1]) # results_in[1]

----------------------------------------------------------------------------
(* The /map/<system>-code routes: map_to_icd (build_indexes/mapper.py) and   *)
(* rerank_mapping_results (reranking.py).  The keys of a mapping result are  *)
(* put together from the system name, so system names and keys are          *)
(* sequences of characters here.  The searches map_to_icd calls and the     *)
(* database are outside the model: search_out and history hold what they    *)
(* give.                                                                    *)

SIDDHA       == <<"s","i","d","d","h","a">>
AYURVEDA     == <<"a","y","u","r","v","e","d","a">>
UNANI        == <<"u","n","a","n","i">>
AYURVEDA_SAT == AYURVEDA \o <<"-","s","a","t">>

\* The systems of the four routes of server.py.
MapSystems == {SIDDHA, AYURVEDA, UNANI, AYURVEDA_SAT}

CANDIDATES_SUFFIX  == <<"_","c","a","n","d","i","d","a","t","e","s">>
ICD11_PREFIX       == <<"i","c","d","1","1","_">>
ICD11_STANDARD_KEY == ICD11_PREFIX \o <<"s","t","a","n","d","a","r","d">> \o CANDIDATES_SUFFIX
ICD11_TM2_KEY      == ICD11_PREFIX \o <<"t","m","2">> \o CANDIDATES_SUFFIX
INPUT_KEY          == <<"i","n","p","u","t">>
SYSTEM_KEY         == <<"s","y","s","t","e","m">>

\* str.replace(old, new) for single characters.
replace(str, old, new) == [i \in DOMAIN str |-> IF str[i] = old THEN new ELSE str[i]]

MAP_TOP == 10

\* map_to_icd as a call; out holds the candidates of the three searches.
\* tm_candidates[0]["term"] raises for an empty list.
map_to_icd(user_input, sys, out) ==
    IF out.tm = <<>>
    THEN [raised |-> IndexError, value |-> <<>>]
    ELSE [raised |-> None,
          value |-> (INPUT_KEY :> user_input) @@ (SYSTEM_KEY :> sys)
                    @@ ((sys \o CANDIDATES_SUFFIX) :> out.tm)
                    @@ (ICD11_STANDARD_KEY :> Take(out.icd11_standard, MAP_TOP))
                    @@ (ICD11_TM2_KEY :> Take(out.icd11_tm2, MAP_TOP))]

EMPTY_COUNTS == [tm_codes |-> <<>>, icd11_standard |-> <<>>, icd11_tm2 |-> <<>>]

\* get_selection_counts: the rows of the three queries, or, when connecting
\* or a query raised (sqlite3.Error or any other Exception), empty counts.
get_selection_counts(db) ==
    IF db.outcome = "ok" THEN db.rows ELSE EMPTY_COUNTS

\* if key in mapping_result: mapping_result[key] = apply_boost_to_results(...)
rerank_list(mr, key, code_counts) ==
    IF key \in DOMAIN mr
    THEN [mr EXCEPT ![key] = apply_boost_to_results(mr[key], code_counts)]
    ELSE mr

rerank_mapping_results(mr, sys, all_counts) ==
    rerank_list(
        rerank_list(
            rerank_list(mr, replace(sys, "-", "_") \o CANDIDATES_SUFFIX, all_counts.tm_codes),
            ICD11_STANDARD_KEY, all_counts.icd11_standard),
        ICD11_TM2_KEY, all_counts.icd11_tm2)

----------------------------------------------------------------------------
(* Specification of the mapping routes *)

MaxMapList == 2    \* the longest list of traditional-medicine candidates tried

MapEntries ==
    {[code |-> c, term |-> "t", score |-> sc] : c \in CandidateCodes, sc \in {5000, 5200}}

\* A search returns its candidates by descending score.
Descending(list) ==
    \A a, b \in DOMAIN list : a < b => list[a].score >= list[b].score

TmLists ==
    {list \in UNION {[1..n -> MapEntries] : n \in 0..MaxMapList} : Descending(list)}

\* One entry more than map_to_icd keeps.
LongList ==
    [i \in 1..(MAP_TOP + 1) |->
        [code |-> IF i % 2 = 1 THEN "SP42" ELSE "SP43", term |-> "t", score |-> 8000 - 10 * i]]

IcdLists ==
    {<<>>,
     <<[code |-> "SP43", term |-> "t", score |-> 5200], [code |-> "SP42", term |-> "t", score |-> 5000]>>,
     LongList}

SearchOuts ==
    [tm : TmLists, icd11_standard : IcdLists, icd11_tm2 : IcdLists]

Often  == "SP42" :> 10
Varied == ("SP42" :> 1) @@ ("SP43" :> 10)

\* What the three queries of get_selection_counts find.
Rows ==
    {EMPTY_COUNTS,
     [EMPTY_COUNTS EXCEPT !.tm_codes = Often],
     [EMPTY_COUNTS EXCEPT !.icd11_standard = Often],
     [EMPTY_COUNTS EXCEPT !.icd11_tm2 = Often],
     [tm_codes |-> Varied, icd11_standard |-> Often, icd11_tm2 |-> Varied]}

\* The database: readable, or reading it raises.
Databases ==
    {[outcome |-> "ok", rows |-> r] : r \in Rows}
    \cup {[outcome |-> e, rows |-> [tm_codes |-> Varied, icd11_standard |-> Often, icd11_tm2 |-> Varied]] :
             e \in {"sqlite3.Error", "Exception"}}

MAP_QUERY == <<"S","P","4","2"," ","t">>

InitMap ==
    /\ LevIdle /\ NormIdle /\ AutoIdle /\ RerankIdle /\ RankIdle /\ PipeIdle /\ ConcIdle
    /\ pc = "map request"
    /\ map_system \in MapSystems
    /\ search_out \in SearchOuts
    /\ history \in Databases
    /\ mapping_result = <<>> /\ db_counts = <<>> /\ map_error = None

\* result = map_to_icd(query, system=...)
map_to_icd_call ==
    /\ pc = "map request"
    /\ \E run \in {map_to_icd(MAP_QUERY, map_system, search_out)} :
          /\ map_error' = run.raised
          /\ mapping_result' = run.value
          /\ pc' = IF run.raised = None THEN "mapped" ELSE "map raised"
    /\ UNCHANGED <<map_system, search_out, history, db_counts,
                   levVars, normVars, autoVars, rerankVars, rankVars, pipeVars, concVars>>

\* result = rerank_results(result, system, query); return result
rerank_results_call ==
    /\ pc = "mapped"
    /\ db_counts' = get_selection_counts(history)
    /\ mapping_result' = rerank_mapping_results(mapping_result, map_system,
                                                get_selection_counts(history))
    /\ pc' = "map returned"
    /\ UNCHANGED <<map_system, search_out, history, map_error,
                   levVars, normVars, autoVars, rerankVars, rankVars, pipeVars, concVars>>

NextMap == map_to_icd_call \/ rerank_results_call

SpecMap == InitMap /\ [][NextMap]_vars

----------------------------------------------------------------------------
(* Claims about the mapping routes *)

MapReturned == pc = "map returned"

\* The key map_to_icd stored the traditional-medicine list under.
StoredTmKey == map_system \o CANDIDATES_SUFFIX

\* The key rerank_mapping_results looks the list up under.
LookedUpTmKey == replace(map_system, "-", "_") \o CANDIDATES_SUFFIX

\* The returned mapping result holds under key the list given, boosted with
\* the counts given and with no others.
BoostedWith(key, list, code_counts) ==
    /\ key \in DOMAIN mapping_result
    /\ mapping_result[key] = apply_boost_to_results(list, code_counts)

\* C28: for each of the four systems rerank_mapping_results re-ranks the
\* traditional-medicine list that map_to_icd placed in the mapping result:
\* the key map_to_icd stores it under is the key rerank_mapping_results
\* looks up, and each of the three lists is boosted with its own category of
\* counts only.
C28_EachListOwnCounts ==
    MapReturned =>
        /\ StoredTmKey = LookedUpTmKey
        /\ BoostedWith(StoredTmKey, search_out.tm, db_counts.tm_codes)
        /\ BoostedWith(ICD11_STANDARD_KEY, Take(search_out.icd11_standard, MAP_TOP),
                       db_counts.icd11_standard)
        /\ BoostedWith(ICD11_TM2_KEY, Take(search_out.icd11_tm2, MAP_TOP),
                       db_counts.icd11_tm2)

\* The part that holds: the two ICD lists always, and the traditional-
\* medicine list of a system whose name has no hyphen.
C28_ListsOfMatchingKeys ==
    MapReturned =>
        /\ map_system # AYURVEDA_SAT =>
              BoostedWith(StoredTmKey, search_out.tm, db_counts.tm_codes)
        /\ BoostedWith(ICD11_STANDARD_KEY, Take(search_out.icd11_standard, MAP_TOP),
                       db_counts.icd11_standard)
        /\ BoostedWith(ICD11_TM2_KEY, Take(search_out.icd11_tm2, MAP_TOP),
                       db_counts.icd11_tm2)

\* The ayurveda-sat list comes back as the search gave it, although the
\* database holds selections of its codes.
C28_AyurvedaSatUntouched ==
    /\ MapReturned
    /\ map_system = AYURVEDA_SAT
    /\ history.outcome = "ok" /\ history.rows.tm_codes = Often
    /\ mapping_result[StoredTmKey] = search_out.tm
    /\ "SP42" \in {search_out.tm[k].code : k \in DOMAIN search_out.tm}
    /\ LookedUpTmKey \notin DOMAIN mapping_result

ReadFailed == history.outcome # "ok"

\* Every candidate of the list carries boost 0 and its base score as
\* final_score.
BaseScoresFinal(list) ==
    \A k \in DOMAIN list :
        /\ "final_score" \in DOMAIN list[k]
        /\ list[k].final_score = list[k].score
        /\ list[k].boost_applied = 0

\* The list under key is the list the search gave, in its order.
OrderKept(key, list) ==
    /\ key \in DOMAIN mapping_result
    /\ [k \in DOMAIN mapping_result[key] |-> WithoutBoost(mapping_result[key][k])] = list

\* C29: when reading the selection history fails, rerank_mapping_results
\* does not raise: it goes on with empty counts, every candidate gets boost 0
\* and its base score as final_score, and each list keeps the descending
\* order the search gave it.
C29_ReadFailureKeepsBaseOrder ==
    (MapReturned /\ ReadFailed) =>
        /\ map_error = None
        /\ db_counts = EMPTY_COUNTS
        /\ BaseScoresFinal(mapping_result[StoredTmKey])
        /\ BaseScoresFinal(mapping_result[ICD11_STANDARD_KEY])
        /\ BaseScoresFinal(mapping_result[ICD11_TM2_KEY])
        /\ OrderKept(StoredTmKey, search_out.tm)
        /\ OrderKept(ICD11_STANDARD_KEY, Take(search_out.icd11_standard, MAP_TOP))
        /\ OrderKept(ICD11_TM2_KEY, Take(search_out.icd11_tm2, MAP_TOP))

\* The part that holds: nothing is raised, the counts are empty, every list
\* keeps its order, and every list that is looked up carries the base scores.
C29_ReadFailureHandled ==
    (MapReturned /\ ReadFailed) =>
        /\ map_error = None
        /\ db_counts = EMPTY_COUNTS
        /\ map_system # AYURVEDA_SAT => BaseScoresFinal(mapping_result[StoredTmKey])
        /\ BaseScoresFinal(mapping_result[ICD11_STANDARD_KEY])
        /\ BaseScoresFinal(mapping_result[ICD11_TM2_KEY])
        /\ OrderKept(StoredTmKey, search_out.tm)
        /\ OrderKept(ICD11_STANDARD_KEY, Take(search_out.icd11_standard, MAP_TOP))
        /\ OrderKept(ICD11_TM2_KEY, Take(search_out.icd11_tm2, MAP_TOP))

\* After a failed read the ayurveda-sat candidates carry no final_score.
C29_AyurvedaSatWithoutFinalScore ==
    /\ MapReturned /\ ReadFailed
    /\ map_system = AYURVEDA_SAT
    /\ \A k \in DOMAIN mapping_result[StoredTmKey] :
          "final_score" \notin DOMAIN mapping_result[StoredTmKey][k]
    /\ Len(mapping_result[ICD11_STANDARD_KEY]) = MAP_TOP
    /\ BaseScoresFinal(mapping_result[ICD11_STANDARD_KEY])

----------------------------------------------------------------------------
(* Concurrent callers.  The catalog, the datasets and the index tables are   *)
(* module-level objects that every call reads; what a call computes it      *)
(* keeps in locals of its own.  An index table holds, per query, the scores *)
(* its library gives for that query.  The sort is a function of its input:  *)
(* argsort_order is the order this build leaves among equal scores.         *)

ArgsortOrders == {"index", "reverse"}

order_for(policy, n) ==
    IF policy = "index" THEN [i \in 1..n |-> i] ELSE [i \in 1..n |-> n + 1 - i]

\* bm25_search of one caller.
caller_bm25_search(sh, query, policy) ==
    top_indices(sh.bm25[query], BM25_TOP_K, order_for(policy, Len(sh.bm25[query])))

\* tfidf_rerank of one caller, over its own candidate_ids.
caller_tfidf_rerank(sh, query, candidate_ids, policy) ==
    Bind(LAMBDA top_local : [k \in DOMAIN top_local |-> candidate_ids[top_local[k]]],
         top_indices(sub_scores(sh.tfidf_matrix[query], candidate_ids), TFIDF_TOP_K,
                     order_for(policy, Len(candidate_ids))))

caller_entries(sh, candidate_ids, scores, top_local) ==
    [k \in DOMAIN top_local |->
        [code |-> sh.codes[candidate_ids[top_local[k]]].code,
         term |-> sh.codes[candidate_ids[top_local[k]]].term,
         score |-> scores[top_local[k]]]]

caller_semantic_scored(sh, candidate_ids, scores, policy) ==
    caller_entries(sh, candidate_ids, scores,
                   top_indices(scores, SEMANTIC_TOP_K, order_for(policy, Len(scores))))

\* semantic_rerank of one caller.
caller_semantic_rerank(sh, query, candidate_ids, policy) ==
    caller_semantic_scored(sh, candidate_ids,
                           sub_scores(sh.embeddings[query], candidate_ids), policy)

\* The stages write to bm25, tfidf_matrix, embeddings, codes and terms
\* nowhere: scores, sub_matrix and sub_emb are new arrays.
index_after_stage(sh) == sh

\* A matcher that notes the query in the items it returns.
dataset_after_search_marked(query, dataset) ==
    [i \in DOMAIN dataset |->
        IF dataset[i] \in Range(autocomplete_search(query, dataset).results)
        THEN [matched |-> query] @@ dataset[i]
        ELSE dataset[i]]

\* autocomplete_search appends the items of dataset to a list of its own; it
\* assigns to no item and not to dataset.
dataset_after_search(query, dataset) == dataset

----------------------------------------------------------------------------
(* Specification of concurrent callers *)

NumCallers  == 2    \* callers at a time
ConcCatalog == 3    \* documents of the shared catalog

FEVER == <<"f","e","v","e","r">>
PAIN  == <<"p","a","i","n">>

PipeQueries == {FEVER, PAIN}

\* The score patterns of a table, per query.
PerQuery(fever, pain) == (FEVER :> fever) @@ (PAIN :> pain)

\* The scores of the three tables for the two queries.
IndexChoices ==
    {[bm25 |-> [query \in PipeQueries |-> ScoreTable(b[query], ConcCatalog)],
      tfidf_matrix |-> [query \in PipeQueries |-> ScoreTable(t[query], ConcCatalog)],
      embeddings |-> [query \in PipeQueries |-> ScoreTable(e[query], ConcCatalog)]] :
        b \in {PerQuery("rising", "falling"), PerQuery("zero", "waves")},
        t \in {PerQuery("falling", "waves"), PerQuery("zero", "rising")},
        e \in {PerQuery("waves", "rising")}}

SharedStates ==
    {[dataset |-> Entries(pattern, "cycle", ConcCatalog), codes |-> Corpus(ConcCatalog),
      bm25 |-> ix.bm25, tfidf_matrix |-> ix.tfidf_matrix, embeddings |-> ix.embeddings] :
        pattern \in {<<Pain, Eff, FeverDisorder>>, <<Fee, Eff>>}, ix \in IndexChoices}

\* A call before its first step.
Call(kind, query) ==
    [kind |-> kind, query |-> query, pc |-> "start",
     top_ids |-> <<>>, candidate_ids |-> <<>>, ret |-> PyNone]

Calls ==
    {Call("search_siddha", query) : query \in PipeQueries}
    \cup {Call("autocomplete_search", query) : query \in {<<"f","e">>, Febr}}

InitConc ==
    /\ LevIdle /\ NormIdle /\ AutoIdle /\ RerankIdle /\ RankIdle /\ PipeIdle /\ MapIdle
    /\ pc = "serving"
    /\ shared \in SharedStates
    /\ callers \in [1..NumCallers -> Calls]
    /\ argsort_order \in ArgsortOrders

\* The next step of caller c when it is in search_siddha.
caller_search_step(c) ==
    /\ callers[c].kind = "search_siddha"
    /\ \/ /\ callers[c].pc = "start"
          /\ callers' = [callers EXCEPT
                ![c].top_ids = caller_bm25_search(shared, callers[c].query, argsort_order),
                ![c].pc = "stage 1 done"]
       \/ /\ callers[c].pc = "stage 1 done"
          /\ callers' = [callers EXCEPT
                ![c].candidate_ids = caller_tfidf_rerank(shared, callers[c].query,
                                                         callers[c].top_ids, argsort_order),
                ![c].pc = "stage 2 done"]
       \/ /\ callers[c].pc = "stage 2 done"
          /\ callers' = [callers EXCEPT
                ![c].ret = Py(caller_semantic_rerank(shared, callers[c].query,
                                                     callers[c].candidate_ids, argsort_order)),
                ![c].pc = "done"]
    /\ shared' = index_after_stage(shared)
    /\ UNCHANGED <<pc, argsort_order, levVars, normVars, autoVars, rerankVars, rankVars,
                   pipeVars, mapVars>>

\* Caller c runs autocomplete_search.
caller_autocomplete_step(c) ==
    /\ callers[c].kind = "autocomplete_search"
    /\ callers[c].pc = "start"
    /\ callers' = [callers EXCEPT
          ![c].ret = Py(autocomplete_search(callers[c].query, shared.dataset)),
          ![c].pc = "done"]
    /\ shared' = [shared EXCEPT
          !.dataset = dataset_after_search(callers[c].query, shared.dataset)]
    /\ UNCHANGED <<pc, argsort_order, levVars, normVars, autoVars, rerankVars, rankVars,
                   pipeVars, mapVars>>

NextConc ==
    \E c \in 1..NumCallers : caller_search_step(c) \/ caller_autocomplete_step(c)

SpecConc == InitConc /\ [][NextConc]_vars

----------------------------------------------------------------------------
(* Claims about concurrent callers *)

\* What the call returns when no other call runs.
Alone(call) ==
    IF call.kind = "search_siddha"
    THEN caller_semantic_rerank(shared, call.query,
             caller_tfidf_rerank(shared, call.query,
                 caller_bm25_search(shared, call.query, argsort_order), argsort_order),
             argsort_order)
    ELSE autocomplete_search(call.query, shared.dataset)

ResultsAsAlone ==
    \A c \in DOMAIN callers :
        callers[c].pc = "done" => callers[c].ret.value = Alone(callers[c])

====
